---- MODULE Spec2Model ----
(***************************************************************************)
(* Model of den's command resolution (click_ext.SmartGroup,                *)
(* commands.alias.AliasGroup, commands.alias.find), of its layered         *)
(* configuration reader (config.Config), of the configuration and alias    *)
(* commands (commands.config, commands.alias) and of the lifecycle commands*)
(* over the container engine (commands.dens, shell.run, utils.uses_docker).*)
(*                                                                         *)
(* Python strings are sequences of one-character strings, so that          *)
(* str.startswith, str.split and sorted are computed, not assumed; the     *)
(* fixed texts of messages and of engine command lines are single pieces of*)
(* such a sequence.  Parsed configuration is a function  section -> (key ->*)
(* value), as ConfigParser holds it; a file is the options written to it,  *)
(* and reading it strips the blanks around each value.  The files hold no  *)
(* [DEFAULT] section and no "%" interpolation syntax, option names are     *)
(* lower-case, and section and option names are not empty and hold no      *)
(* blank, so that ConfigParser's defaults, interpolation, case folding and *)
(* line syntax play no part.  den runs in the project's base directory, so *)
(* that .den.ini is one file for the reader and for the commands that write*)
(* it.                                                                     *)
(*                                                                         *)
(* Spec is one run of `den <token> <rest>` up to the resolution of the     *)
(* command; SpecConfig is the loading and reading of the layered Config;   *)
(* SpecExpand is one call of _expand; SpecSet is a run of `den config set` *)
(* commands on one target file ended by a `den config get`; SpecMutate is  *)
(* one config or alias command on the two files; SpecAlias is `den alias`  *)
(* followed, in a new process, by the resolution of a command line;        *)
(* SpecEngine is one lifecycle command; SpecChain is Spec over a file of   *)
(* aliases whose expansions begin with alias names; SpecLogger is one      *)
(* report_success step of a CLILogger among the messages logged.           *)
(***************************************************************************)
EXTENDS Integers, Sequences, FiniteSets, TLC

VARIABLES commands,   \* names registered on the den group (Group.commands)
          files,      \* the file system: path -> [exists, data]
          hasConfig,  \* whether the context object has a `config` attribute
          config,     \* Context._config: whether it is loaded, and the parser
          args,       \* argument list of the last resolve_command call
          firstError, \* what the first resolution attempt raised, or None
          findCalled, \* whether find() was consulted by the last call
          aliasUsed,  \* expansion the last call re-resolved with, or None
          result,     \* outcome of the last resolve_command call
          lastGet,    \* last Config.get call: its arguments and its value
          lastSection,\* last Config.get_section call: argument and value
          expanded,   \* last _expand call: its arguments and its outcome
          lastCommand,\* last config/alias command: arguments and outcome
          lastSet,    \* (file, section, key) -> value of its latest set
          engine,     \* last lifecycle command: engine calls and outcome
          logger      \* the CLILoggers and what has reached the terminal

\* what the address model, the command model and the engine model add
addressVars == <<expanded>>

commandVars == <<lastCommand, lastSet>>

engineVars == <<engine, logger>>

vars == <<commands, files, hasConfig, config, args, firstError, findCalled,
          aliasUsed, result, lastGet, lastSection, addressVars, commandVars,
          engineVars>>

----------------------------------------------------------------------------
(* Bounds *)

MaxNameLen == 2     \* longest command name / typed token
MaxCommands == 2    \* most names registered on the group
MaxExpansion == 2   \* most tokens in the expansion of an alias
MaxRest == 1        \* most trailing arguments after the command token
MaxEntries == 1     \* most options in one file of the layering model
MaxAddressLen == 4  \* longest SECTION or KEY token given to _expand
MaxSets == 2        \* most options set by the commands of one run
MaxDens == 1        \* most dens named to, or listed for, one command
MaxAliases == 2     \* most aliases in the file of the chained-alias model
MaxLogs == 2        \* most messages logged in one run of the logger

----------------------------------------------------------------------------
(* Strings *)

Letters == <<"a", "b">>

Alphabet == {Letters[i] : i \in 1..Len(Letters)}

\* the backquote of the messages, which a string of this module cannot hold
BACKQUOTE == "'"

SPACE == " "

None == <<"None">>

SeqsUpTo(S, n) == UNION {[1..m -> S] : m \in 0..n}

\* every string a user can type as a command token
Tokens == SeqsUpTo(Alphabet, MaxNameLen)

\* names a command can be registered under
Names == Tokens \ {<<>>}

\* the one-letter strings: alias names, option names, tokens of expansions
Words == {<<Letters[i]>> : i \in 1..Len(Letters)}

\* trailing arguments are built from one token, which differs from "a"
RestTokens == {<<Letters[Len(Letters)]>>}

Rests == SeqsUpTo(RestTokens, MaxRest)

ALIAS_SECTION == <<"a", "l", "i", "a", "s">>

OTHER_SECTION == <<"x">>

Sections == {ALIAS_SECTION, OTHER_SECTION}

LOCAL_CONFIG_FILE == "local"

USER_CONFIG_FILE == "user"

CONFIG_FILES == <<LOCAL_CONFIG_FILE, USER_CONFIG_FILE>>

\* str.startswith
startswith(s, prefix) ==
    /\ Len(prefix) <= Len(s)
    /\ SubSeq(s, 1, Len(prefix)) = prefix

\* index of the first occurrence of sep in s, 0 when there is none
RECURSIVE IndexFrom(_, _, _)
IndexFrom(s, sep, i) ==
    IF i > Len(s) THEN 0
    ELSE IF s[i] = sep THEN i
    ELSE IndexFrom(s, sep, i + 1)

\* click.style(text, fg=fg): the text between the escape sequences of the
\* colour and of the reset
style(text, fg) ==
    <<"ESC[",
      CASE fg = "red" -> "31" [] fg = "green" -> "32" [] fg = "cyan" -> "36",
      "m">> \o text \o <<"ESC[0m">>

\* log._format: every span between two backquotes is replaced by its
\* inside, styled
RECURSIVE _format(_)
_format(msg) ==
    IF msg = <<>> THEN <<>>
    ELSE IF msg[1] # BACKQUOTE THEN <<msg[1]>> \o _format(Tail(msg))
    ELSE LET close == IndexFrom(Tail(msg), BACKQUOTE, 1)
         IN  IF close = 0 THEN msg
             ELSE style(SubSeq(msg, 2, close), "cyan")
                     \o _format(SubSeq(msg, close + 2, Len(msg)))

\* str.split(sep) with an explicit one-character separator
RECURSIVE split(_, _)
split(s, sep) ==
    LET i == IndexFrom(s, sep, 1)
    IN  IF i = 0 THEN <<s>>
        ELSE <<SubSeq(s, 1, i - 1)>> \o split(SubSeq(s, i + 1, Len(s)), sep)

\* " ".join(tokens), for a list that is not empty
RECURSIVE Joined(_)
Joined(tokens) ==
    IF Len(tokens) = 1 THEN tokens[1]
    ELSE tokens[1] \o <<SPACE>> \o Joined(Tail(tokens))

\* the values of the alias section: the empty one, and commands of up to
\* MaxExpansion one-letter tokens
Expansions ==
    {<<>>} \cup {Joined(ts) : ts \in SeqsUpTo(Words, MaxExpansion) \ {<<>>}}

\* str.strip() of a string whose only whitespace is the blank
RECURSIVE lstrip(_)
lstrip(s) ==
    IF s # <<>> /\ s[1] = SPACE THEN lstrip(Tail(s)) ELSE s

RECURSIVE rstrip(_)
rstrip(s) ==
    IF s # <<>> /\ s[Len(s)] = SPACE THEN rstrip(SubSeq(s, 1, Len(s) - 1))
    ELSE s

strip(s) == rstrip(lstrip(s))

\* the order of the characters: the blank sorts before every letter
CharOrd(c) ==
    IF c = SPACE THEN 0 ELSE CHOOSE i \in 1..Len(Letters) : Letters[i] = c

\* s < t in Python's string order
RECURSIVE StrLess(_, _)
StrLess(s, t) ==
    IF t = <<>> THEN FALSE
    ELSE IF s = <<>> THEN TRUE
    ELSE IF s[1] # t[1] THEN CharOrd(s[1]) < CharOrd(t[1])
    ELSE StrLess(Tail(s), Tail(t))

\* sorted(S)
RECURSIVE sorted(_)
sorted(S) ==
    IF S = {} THEN <<>>
    ELSE LET m == CHOOSE x \in S : \A y \in S \ {x} : StrLess(x, y)
         IN  <<m>> \o sorted(S \ {m})

----------------------------------------------------------------------------
(* Configuration files and config.Config *)

EmptyParser == [s \in {} |-> None]

\* the options of one section as ConfigParser parses them: the blanks around
\* a value are not part of it
ParsedSection(options) == [k \in DOMAIN options |-> strip(options[k])]

\* ConfigParser.read of one file's content into a parser: sections are
\* united, and an option of the file replaces the option already held
ParserRead(parser, data) ==
    [s \in DOMAIN parser \cup DOMAIN data |->
        IF s \notin DOMAIN data THEN parser[s]
        ELSE IF s \notin DOMAIN parser THEN ParsedSection(data[s])
        ELSE [k \in DOMAIN parser[s] \cup DOMAIN data[s] |->
                IF k \in DOMAIN data[s] THEN strip(data[s][k])
                ELSE parser[s][k]]]

\* the loop leaving at the first file that does not exist
RECURSIVE ConfigFrom_stop_at_missing(_, _, _, _)
ConfigFrom_stop_at_missing(parser, fs, paths, i) ==
    IF i > Len(paths) THEN parser
    ELSE IF fs[paths[i]].exists
         THEN ConfigFrom_stop_at_missing(ParserRead(parser, fs[paths[i]].data),
                                         fs, paths, i + 1)
         ELSE parser

\* the loop leaving after the first file it has read
RECURSIVE ConfigFrom_first_existing(_, _, _, _)
ConfigFrom_first_existing(parser, fs, paths, i) ==
    IF i > Len(paths) THEN parser
    ELSE IF fs[paths[i]].exists
         THEN ParserRead(parser, fs[paths[i]].data)
         ELSE ConfigFrom_first_existing(parser, fs, paths, i + 1)

\* the loop of Config.__init__ over files[i..]: os.path.exists guards read
RECURSIVE ConfigFrom(_, _, _, _)
ConfigFrom(parser, fs, paths, i) ==
    IF i > Len(paths) THEN parser
    ELSE IF fs[paths[i]].exists
         THEN ConfigFrom(ParserRead(parser, fs[paths[i]].data), fs, paths, i + 1)
         ELSE ConfigFrom(parser, fs, paths, i + 1)

\* Config(*paths)
Config(fs, paths) == ConfigFrom(EmptyParser, fs, paths, 1)

\* get answering None, not the default, for a missing section or option
get_without_default(parser, section, key, default) ==
    IF section \notin DOMAIN parser THEN None
    ELSE IF key \notin DOMAIN parser[section] THEN None
    ELSE parser[section][key]

\* Config.get
get(parser, section, key, default) ==
    IF section \notin DOMAIN parser THEN default          \* NoSectionError
    ELSE IF key \notin DOMAIN parser[section] THEN default \* NoOptionError
    ELSE parser[section][key]

\* Config.get_section
get_section(parser, section) ==
    IF section \notin DOMAIN parser THEN EmptyParser       \* NoSectionError
    ELSE parser[section]

NotLoaded == [loaded |-> FALSE, parser |-> EmptyParser]

Loaded(parser) == [loaded |-> TRUE, parser |-> parser]

\* Context.config, a cached property: loaded on first use, then reused
ContextConfig(cached, fs) ==
    IF ~cached.loaded THEN Loaded(Config(fs, CONFIG_FILES)) ELSE cached

----------------------------------------------------------------------------
(* Command resolution *)

NoCommand == [kind |-> "none"]

Command(name) == [kind |-> "command", name |-> name]

\* click.UsageError: text tells which failure it is, name and names what it
\* is about, message is what click prints after "Error: "
UsageError(text, name, names, message) ==
    [kind |-> "error", type |-> "UsageError", text |-> text, name |-> name,
     names |-> names, message |-> message]

Resolved(name, cmd, rest) ==
    [kind |-> "ok", name |-> name, cmd |-> cmd, rest |-> rest]

\* click.Group.list_commands
list_commands(C) == sorted(C)

\* click.Group.get_command: the registry lookup
GroupGetCommand(C, cmd_name) ==
    IF cmd_name \in C THEN Command(cmd_name) ELSE NoCommand

\* find_unique_short with the arguments of startswith exchanged
find_unique_short_swapped(C, command_name) ==
    LET possible_commands ==
            SelectSeq(sorted(C), LAMBDA c : startswith(command_name, c))
    IN  IF Len(possible_commands) = 1
        THEN GroupGetCommand(C, possible_commands[1])
        ELSE IF possible_commands # <<>>
             THEN [kind |-> "list", names |-> possible_commands]
             ELSE NoCommand

\* click_ext.find_unique_short
find_unique_short(C, command_name) ==
    LET possible_commands ==
            SelectSeq(list_commands(C), LAMBDA c : startswith(c, command_name))
    IN  IF Len(possible_commands) = 1
        THEN GroupGetCommand(C, possible_commands[1])
        ELSE IF possible_commands # <<>>
             THEN [kind |-> "list", names |-> possible_commands]
             ELSE NoCommand

\* sep.join(names)
RECURSIVE join(_, _)
join(sep, names) ==
    IF names = <<>> THEN <<>>
    ELSE IF Len(names) = 1 THEN names[1]
    ELSE names[1] \o <<sep>> \o join(sep, Tail(names))

\* the message of get_command with the names put one after the other
ambiguous_unseparated(cmd_name, possible_commands) ==
    <<BACKQUOTE>> \o cmd_name
        \o <<BACKQUOTE, " is ambiguous and matched multiple commands: ">>
        \o join(SPACE, possible_commands)

\* the message get_command hands to ctx.fail
ambiguous(cmd_name, possible_commands) ==
    <<BACKQUOTE>> \o cmd_name
        \o <<BACKQUOTE, " is ambiguous and matched multiple commands: ">>
        \o join(", ", possible_commands)

\* get_command looking for a prefix match before the exact one
get_command_prefix_first(C, cmd_name) ==
    LET possible_commands == find_unique_short(C, cmd_name)
    IN  IF possible_commands.kind = "list"
        THEN UsageError("ambiguous", cmd_name, possible_commands.names,
                            ambiguous(cmd_name, possible_commands.names))
        ELSE possible_commands

\* SmartGroup.get_command
get_command(C, cmd_name) ==
    LET command == GroupGetCommand(C, cmd_name)
    IN  IF command # NoCommand THEN command
        ELSE LET possible_commands == find_unique_short(C, cmd_name)
             IN  IF possible_commands.kind = "list"
                 THEN UsageError("ambiguous", cmd_name,
                                 possible_commands.names,
                                 ambiguous(cmd_name, possible_commands.names))
                 ELSE possible_commands

\* click.Group.resolve_command on a SmartGroup
GroupResolveCommand(C, argv) ==
    LET cmd == get_command(C, argv[1])
    IN  IF cmd.kind = "error" THEN cmd
        ELSE IF cmd = NoCommand
             THEN UsageError("No such command", argv[1], <<>>,
                             <<"No such command ", "\"">> \o argv[1]
                                 \o <<"\"", ".">>)
             ELSE Resolved(argv[1], cmd.name, Tail(argv))

NoAlias == [found |-> FALSE]

Alias(argv) == [found |-> TRUE, argv |-> argv]

\* find splitting the expansion at runs of blanks, as str.split() does
find_at_blank_runs(has, parser, alias) ==
    IF ~has THEN NoAlias
    ELSE LET expansion == get(parser, ALIAS_SECTION, alias, None)
         IN  IF expansion # None /\ expansion # <<>>
             THEN Alias(SelectSeq(split(expansion, SPACE),
                                  LAMBDA token : token # <<>>))
             ELSE NoAlias

\* commands.alias.find
find(has, parser, alias) ==
    IF ~has THEN NoAlias
    ELSE LET expansion == get(parser, ALIAS_SECTION, alias, None)
         IN  IF expansion # None /\ expansion # <<>>
             THEN Alias(split(expansion, SPACE))
             ELSE NoAlias

\* resolve_command re-resolving the expansion without the trailing arguments
resolve_command_drop_rest(C, has, parser, argv) ==
    LET first == GroupResolveCommand(C, argv)
    IN  IF first.kind = "ok"
        THEN [out |-> first, first |-> NoCommand, consulted |-> FALSE,
              alias |-> NoAlias]
        ELSE LET alias == find(has, parser, argv[1])
             IN  [out |-> IF ~alias.found THEN first
                          ELSE GroupResolveCommand(C, alias.argv),
                  first |-> first, consulted |-> TRUE, alias |-> alias]

\* resolve_command raising an error of its own when there is no alias
resolve_command_new_error(C, has, parser, argv) ==
    LET first == GroupResolveCommand(C, argv)
    IN  IF first.kind = "ok"
        THEN [out |-> first, first |-> NoCommand, consulted |-> FALSE,
              alias |-> NoAlias]
        ELSE LET alias == find(has, parser, argv[1])
             IN  [out |-> IF ~alias.found
                          THEN UsageError("No alias", argv[1], <<>>,
                                          <<"No alias">>)
                          ELSE GroupResolveCommand(C, alias.argv \o Tail(argv)),
                  first |-> first, consulted |-> TRUE, alias |-> alias]

\* resolve_command looking the alias up before the registered commands
resolve_command_alias_first(C, has, parser, argv) ==
    LET alias == find(has, parser, argv[1])
        first == GroupResolveCommand(C, argv)
    IN  IF alias.found
        THEN [out |-> GroupResolveCommand(C, alias.argv \o Tail(argv)),
              first |-> NoCommand, consulted |-> TRUE, alias |-> alias]
        ELSE [out |-> first, first |-> first, consulted |-> TRUE,
              alias |-> alias]

\* resolve_command looking up an alias for the head of the expansion too
resolve_command_chained(C, has, parser, argv) ==
    LET first == GroupResolveCommand(C, argv)
    IN  IF first.kind = "ok"
        THEN [out |-> first, first |-> NoCommand, consulted |-> FALSE,
              alias |-> NoAlias]
        ELSE LET alias == find(has, parser, argv[1])
                 second == GroupResolveCommand(C, alias.argv \o Tail(argv))
                 inner == find(has, parser, alias.argv[1])
             IN  [out |-> IF ~alias.found THEN first
                          ELSE IF second.kind = "ok" THEN second
                          ELSE IF ~inner.found THEN second
                          ELSE GroupResolveCommand(
                                   C, inner.argv \o Tail(alias.argv)
                                          \o Tail(argv)),
                  first |-> first, consulted |-> TRUE, alias |-> alias]

\* resolve_command raising the first error again when the expansion fails
resolve_command_first_error(C, has, parser, argv) ==
    LET first == GroupResolveCommand(C, argv)
    IN  IF first.kind = "ok"
        THEN [out |-> first, first |-> NoCommand, consulted |-> FALSE,
              alias |-> NoAlias]
        ELSE LET alias == find(has, parser, argv[1])
                 second == GroupResolveCommand(C, alias.argv \o Tail(argv))
             IN  [out |-> IF ~alias.found THEN first
                          ELSE IF second.kind = "ok" THEN second
                          ELSE first,
                  first |-> first, consulted |-> TRUE, alias |-> alias]

\* AliasGroup.resolve_command.  out is the value returned or the error
\* raised; first is what the first attempt raised; consulted tells whether
\* find() was called and alias is what it returned
resolve_command(C, has, parser, argv) ==
    LET first == GroupResolveCommand(C, argv)
    IN  IF first.kind = "ok"
        THEN [out |-> first, first |-> NoCommand, consulted |-> FALSE,
              alias |-> NoAlias]
        ELSE LET alias == find(has, parser, argv[1])
             IN  [out |-> IF ~alias.found THEN first
                          ELSE GroupResolveCommand(C, alias.argv \o Tail(argv)),
                  first |-> first, consulted |-> TRUE, alias |-> alias]

----------------------------------------------------------------------------
(* The state machine *)

MissingFile == [exists |-> FALSE, data |-> EmptyParser]

File(data) == [exists |-> TRUE, data |-> data]

\* the (section, key, value) entries of a parsed file as a function
DataOf(declared, entries) ==
    [s \in declared |->
        [k \in {e[2] : e \in {x \in entries : x[1] = s}} |->
            (CHOOSE e \in entries : e[1] = s /\ e[2] = k)[3]]]

\* the subsets of S with at most n elements
RECURSIVE SubsetsUpTo(_, _)
SubsetsUpTo(S, n) ==
    IF n = 0 THEN {{}}
    ELSE LET P == SubsetsUpTo(S, n - 1)
         IN  P \cup {p \cup {x} : p \in P, x \in S}

\* parsed contents with at most n options, over the given names
FileDatas(secs, keys, vals, n) ==
    {DataOf(de[1], de[2]) :
        de \in {x \in (SUBSET secs) \X SubsetsUpTo(secs \X keys \X vals, n) :
                  /\ \A e \in x[2] : e[1] \in x[1]
                  /\ \A e, f \in x[2] : (e[1] = f[1] /\ e[2] = f[2]) => e = f}}

NoGet == [called |-> FALSE]

NoResult == [kind |-> "not called"]

\* no _expand call, no config/alias command, no lifecycle command and no
\* logging yet
NoCall == [called |-> FALSE]

NothingElseRun ==
    /\ expanded = NoCall
    /\ lastCommand = NoCall
    /\ lastSet = EmptyParser
    /\ engine = NoCall
    /\ logger = NoCall

\* the alias of the resolution model is named "a"; the registered names and
\* the typed token range over both letters
AliasNames == {<<Letters[1]>>}

\* the local file of the resolution model: missing, without an alias
\* section, or with an alias section of at most one alias
AliasFiles ==
    {MissingFile, File(EmptyParser)} \cup
    {File(d) : d \in FileDatas({ALIAS_SECTION}, AliasNames, Expansions, 1)}

Init ==
    /\ commands \in {C \in SUBSET Names : Cardinality(C) <= MaxCommands}
    /\ hasConfig \in BOOLEAN
    /\ \E f \in AliasFiles :
          /\ hasConfig \/ f = MissingFile
          /\ files = [p \in {LOCAL_CONFIG_FILE, USER_CONFIG_FILE} |->
                        IF p = LOCAL_CONFIG_FILE THEN f ELSE MissingFile]
    /\ config = NotLoaded
    /\ args = <<>>
    /\ firstError = NoCommand
    /\ findCalled = FALSE
    /\ aliasUsed = NoAlias
    /\ result = NoResult
    /\ lastGet = NoGet
    /\ lastSection = NoGet
    /\ NothingElseRun

\* den <argv>: AliasGroup.resolve_command(ctx, argv); ctx.obj.config is
\* loaded when find() reads it for the first time
ResolveCommand(argv) ==
    /\ result = NoResult
    /\ \E cached \in {ContextConfig(config, files)} :
         \E r \in {resolve_command(commands, hasConfig, cached.parser, argv)} :
           /\ args' = argv
           /\ result' = r.out
           /\ firstError' = r.first
           /\ findCalled' = r.consulted
           /\ aliasUsed' = r.alias
           /\ config' = IF r.consulted /\ hasConfig THEN cached ELSE config
           /\ UNCHANGED <<commands, files, hasConfig, lastGet, lastSection,
                          addressVars, commandVars, engineVars>>

Resolve == \E t \in Tokens, rest \in Rests : ResolveCommand(<<t>> \o rest)

Next == Resolve

Spec == Init /\ [][Next]_vars

----------------------------------------------------------------------------
(* Runs of the resolution over aliases that name aliases *)

\* the names of the aliases, the first the head of the second and third
ChainNames ==
    {<<Letters[1]>>, <<Letters[1], Letters[1]>>, <<Letters[1], Letters[2]>>}

\* their values: an alias name, a name with an argument, a word no alias
\* is named by, two words with two blanks between them, or nothing
ChainValues ==
    ChainNames \cup {<<Letters[2]>>,
                     <<Letters[1], Letters[2], SPACE, Letters[2]>>,
                     <<Letters[2], SPACE, SPACE, Letters[1]>>,
                     <<>>}

\* the local file is missing or holds at most MaxAliases aliases; the
\* registered names are words
InitChain ==
    /\ commands \in SUBSET Words
    /\ hasConfig \in BOOLEAN
    /\ \E f \in {MissingFile} \cup
                 {File(d) : d \in FileDatas({ALIAS_SECTION}, ChainNames,
                                            ChainValues, MaxAliases)} :
          /\ hasConfig \/ f = MissingFile
          /\ files = [p \in {LOCAL_CONFIG_FILE, USER_CONFIG_FILE} |->
                        IF p = LOCAL_CONFIG_FILE THEN f ELSE MissingFile]
    /\ config = NotLoaded
    /\ args = <<>>
    /\ firstError = NoCommand
    /\ findCalled = FALSE
    /\ aliasUsed = NoAlias
    /\ result = NoResult
    /\ lastGet = NoGet
    /\ lastSection = NoGet
    /\ NothingElseRun

SpecChain == InitChain /\ [][Next]_vars

----------------------------------------------------------------------------
(* The layering model: two configuration files and the reads of Config *)

ConfigKeys == Words

ConfigValues == {<<>>} \cup Words

\* a section no file declares
ABSENT_SECTION == <<"y">>

QuerySections == Sections \cup {ABSENT_SECTION}

\* the defaults callers pass: None, or "0" as den() does for the verbosity
Defaults == {None, <<"0">>}

ConfigFiles ==
    {MissingFile} \cup
    {File(d) : d \in FileDatas(Sections, ConfigKeys, ConfigValues, MaxEntries)}

InitConfig ==
    /\ commands = {}
    /\ hasConfig = TRUE
    /\ files \in [{LOCAL_CONFIG_FILE, USER_CONFIG_FILE} -> ConfigFiles]
    /\ config = NotLoaded
    /\ args = <<>>
    /\ firstError = NoCommand
    /\ findCalled = FALSE
    /\ aliasUsed = NoAlias
    /\ result = NoResult
    /\ lastGet = NoGet
    /\ lastSection = NoGet
    /\ NothingElseRun

\* first read of Context.config: Config(*CONFIG_FILES)
LoadConfig ==
    /\ ~config.loaded
    /\ config' = ContextConfig(config, files)
    /\ UNCHANGED <<commands, files, hasConfig, args, firstError, findCalled,
                   aliasUsed, result, lastGet, lastSection, addressVars,
                   commandVars, engineVars>>

\* context.config.get(section, key, default)
ConfigGet(section, key, default) ==
    /\ lastGet = NoGet
    /\ config' = ContextConfig(config, files)
    /\ lastGet' = [called |-> TRUE, section |-> section, key |-> key,
                   default |-> default,
                   value |-> get(config'.parser, section, key, default)]
    /\ UNCHANGED <<commands, files, hasConfig, args, firstError, findCalled,
                   aliasUsed, result, lastSection, addressVars, commandVars,
                   engineVars>>

\* context.config.get_section(section)
ConfigGetSection(section) ==
    /\ lastSection = NoGet
    /\ config' = ContextConfig(config, files)
    /\ lastSection' = [called |-> TRUE, section |-> section,
                       value |-> get_section(config'.parser, section)]
    /\ UNCHANGED <<commands, files, hasConfig, args, firstError, findCalled,
                   aliasUsed, result, lastGet, addressVars, commandVars,
                   engineVars>>

Get == \E s \in QuerySections, k \in ConfigKeys, d \in Defaults :
          ConfigGet(s, k, d)

GetSection == \E s \in QuerySections : ConfigGetSection(s)

NextConfig == LoadConfig \/ Get \/ GetSection

SpecConfig == InitConfig /\ [][NextConfig]_vars

----------------------------------------------------------------------------
(* Address expansion: commands.config._expand *)

DOT == "."

\* every SECTION token and every KEY token a user can type: letters and
\* dots
AddressTokens == SeqsUpTo(Alphabet \cup {DOT}, MaxAddressLen)

\* bool(x) of an Optional[str]
Truthy(x) == x # None /\ x # <<>>

\* sep in s
Contains(s, sep) == IndexFrom(s, sep, 1) # 0

\* str.split(sep, 1)
split_once(s, sep) ==
    LET i == IndexFrom(s, sep, 1)
    IN  IF i = 0 THEN <<s>>
        ELSE <<SubSeq(s, 1, i - 1), SubSeq(s, i + 1, Len(s))>>

\* click.BadParameter, a UsageError
BadParameter(text, hint) ==
    [kind |-> "error", type |-> "BadParameter", text |-> text, hint |-> hint]

\* the (section, key) tuple _expand returns
Address(section, key) == [kind |-> "ok", section |-> section, key |-> key]

\* _expand that splits a dotted token on its last dot
_expand_split_last(section, key, key_required) ==
    LET RECURSIVE LastIndex(_)
        LastIndex(i) ==
            IF i = 0 THEN 0
            ELSE IF section[i] = DOT THEN i
            ELSE LastIndex(i - 1)
        j == LastIndex(Len(section))
    IN  IF ~Truthy(key) /\ ~Contains(section, DOT)
        THEN IF key_required
             THEN BadParameter("You need to specify a section and a key",
                               "SECTION [KEY]")
             ELSE Address(section, None)
        ELSE IF ~Truthy(key)
        THEN Address(SubSeq(section, 1, j - 1),
                     SubSeq(section, j + 1, Len(section)))
        ELSE Address(section, key)

_expand(section, key, key_required) ==
    IF ~Truthy(key) /\ ~Contains(section, DOT)
    THEN IF key_required
         THEN BadParameter("You need to specify a section and a key",
                           "SECTION [KEY]")
         ELSE Address(section, None)
    ELSE IF ~Truthy(key)
    THEN LET parts == split_once(section, DOT)
         IN  Address(parts[1], parts[2])
    ELSE Address(section, key)

\* one call of _expand
Expand(section, key, key_required) ==
    /\ expanded' = [called |-> TRUE, section |-> section, key |-> key,
                    key_required |-> key_required,
                    out |-> _expand(section, key, key_required)]
    /\ UNCHANGED <<commands, files, hasConfig, config, args, firstError,
                   findCalled, aliasUsed, result, lastGet, lastSection,
                   commandVars, engineVars>>

ExpandAddress ==
    /\ expanded = NoCall
    /\ \E section \in AddressTokens, key \in {None} \cup AddressTokens, r \in BOOLEAN :
          Expand(section, key, r)

InitExpand ==
    /\ commands = {}
    /\ hasConfig = TRUE
    /\ files = [p \in {LOCAL_CONFIG_FILE, USER_CONFIG_FILE} |-> MissingFile]
    /\ config = NotLoaded
    /\ args = <<>>
    /\ firstError = NoCommand
    /\ findCalled = FALSE
    /\ aliasUsed = NoAlias
    /\ result = NoResult
    /\ lastGet = NoGet
    /\ lastSection = NoGet
    /\ NothingElseRun

NextExpand == ExpandAddress

SpecExpand == InitExpand /\ [][NextExpand]_vars

----------------------------------------------------------------------------
(* The configuration commands: commands.config and commands.alias *)

GET_OUTPUT_FORMAT == "{section}.{key} = {value}"

ALIAS_OUTPUT_FORMAT == "'den {key}' is aliased to 'den {value}'"

\* output_format.format(section=section, key=key, value=value)
format(output_format, section, key, value) ==
    IF output_format = GET_OUTPUT_FORMAT
    THEN section \o <<DOT>> \o key \o <<SPACE, "=", SPACE>> \o value
    ELSE <<BACKQUOTE, "den ">> \o key
            \o <<BACKQUOTE, " is aliased to ", BACKQUOTE, "den ">> \o value
            \o <<BACKQUOTE>>

\* a command that returned, with the lines it echoed
Echoed(lines) ==
    [kind |-> "ok", type |-> "none", text |-> <<>>, printed |-> lines]

\* a command ended by an exception, with the lines echoed before it
Raised(type, text, lines) ==
    [kind |-> "error", type |-> type, text |-> text, printed |-> lines]

MissingConfigurationException(section, key) ==
    Raised("MissingConfigurationException",
           IF ~Truthy(key)
           THEN <<"No ", BACKQUOTE>> \o section
                    \o <<BACKQUOTE, " section defined.">>
           ELSE <<"No ", BACKQUOTE>> \o section \o <<DOT>> \o key
                    \o <<BACKQUOTE, " option defined.">>,
           {})

NoAliasException(alias) ==
    Raised("NoAliasException",
           <<"No ", BACKQUOTE>> \o alias \o <<BACKQUOTE, " alias defined.">>,
           {})

\* configparser.NoSectionError, raised out of the command
NoSectionError(section, lines) ==
    Raised("NoSectionError", <<"No section: ">> \o section, lines)

\* the exit status of den for an outcome: 0 on return, UsageError.exit_code
\* for a parameter error, 1 for any other exception
exit_code(out) ==
    IF out.kind = "ok" THEN 0
    ELSE IF out.type \in {"BadParameter", "UsageError"} THEN 2
    ELSE 1

\* context.target_config as config_group and interact_alias set it
target_config(user) ==
    IF user THEN USER_CONFIG_FILE ELSE LOCAL_CONFIG_FILE

\* ConfigParser.read(path) into a fresh parser: a missing file is skipped
FreshParser(fs, path) ==
    IF fs[path].exists THEN ParserRead(EmptyParser, fs[path].data)
    ELSE EmptyParser

\* ConfigParser.set on a section the parser holds
ParserSet(parser, section, key, value) ==
    [parser EXCEPT ![section] =
        [k \in DOMAIN parser[section] \cup {key} |->
            IF k = key THEN value ELSE parser[section][k]]]

add_section(parser, section) ==
    [s \in DOMAIN parser \cup {section} |->
        IF s \in DOMAIN parser THEN parser[s] ELSE EmptyParser]

\* ConfigParser.remove_option on a section the parser holds
remove_option(parser, section, key) ==
    [parser EXCEPT ![section] =
        [k \in DOMAIN parser[section] \ {key} |-> parser[section][k]]]

remove_section(parser, section) ==
    [s \in DOMAIN parser \ {section} |-> parser[s]]

\* _modify_config leaving without writing the parser
_modify_config_discard(fs, config_file, parser) == fs

\* _modify_config writing into both configuration files
_modify_config_both(fs, config_file, parser) ==
    [p \in DOMAIN fs |-> File(parser)]

\* the files after `with _modify_config(config_file) as parser` whose body
\* returned and left the parser as given: the parser is written to the
\* file, which is created when missing
_modify_config(fs, config_file, parser) ==
    [fs EXCEPT ![config_file] = File(parser)]

\* get_value printing the value of the default when the option is missing
get_value_quiet(fs, target, section, key, output_format) ==
    LET a == _expand(section, key, FALSE)
        parser == FreshParser(fs, target)
    IN  IF Truthy(a.key)
        THEN Echoed({_format(format(output_format, a.section, a.key,
                                    get(parser, a.section, a.key, <<>>)))})
        ELSE IF a.section \notin DOMAIN parser
        THEN MissingConfigurationException(a.section, None)
        ELSE Echoed({_format(format(output_format, a.section, k,
                                    parser[a.section][k]))
                        : k \in DOMAIN parser[a.section]})

\* den config get SECTION [KEY]: the outcome, with the lines echoed
get_value(fs, target, section, key, output_format) ==
    LET a == _expand(section, key, FALSE)
        parser == FreshParser(fs, target)
    IN  IF a.section \notin DOMAIN parser
        THEN MissingConfigurationException(a.section, None)
        ELSE IF ~Truthy(a.key)
        THEN Echoed({_format(format(output_format, a.section, k,
                                    parser[a.section][k]))
                        : k \in DOMAIN parser[a.section]})
        ELSE IF a.key \notin DOMAIN parser[a.section]
        THEN MissingConfigurationException(a.section, a.key)
        ELSE Echoed({_format(format(output_format, a.section, a.key,
                                    parser[a.section][a.key]))})

\* set_value keeping the value of an option that is already defined
set_value_keep_old(fs, target, section, value) ==
    LET a == IF Len(section) = 1 THEN _expand(section[1], None, TRUE)
             ELSE _expand(section[1], section[2], TRUE)
    IN  IF a.kind = "error"
        THEN [files |-> fs, address |-> a,
              out |-> Raised(a.type, <<a.text>>, {})]
        ELSE LET parser == FreshParser(fs, target)
                 held == IF a.section \in DOMAIN parser THEN parser
                         ELSE add_section(parser, a.section)
             IN  [files |-> _modify_config(fs, target,
                               IF a.key \in DOMAIN held[a.section] THEN held
                               ELSE ParserSet(held, a.section, a.key, value)),
                  address |-> a,
                  out |-> Echoed({})]

\* set_value writing a section that holds the one option alone
set_value_alone(fs, target, section, value) ==
    LET a == IF Len(section) = 1 THEN _expand(section[1], None, TRUE)
             ELSE _expand(section[1], section[2], TRUE)
    IN  IF a.kind = "error"
        THEN [files |-> fs, address |-> a,
              out |-> Raised(a.type, <<a.text>>, {})]
        ELSE LET parser == FreshParser(fs, target)
                 held == IF a.section \in DOMAIN parser THEN parser
                         ELSE add_section(parser, a.section)
             IN  [files |-> _modify_config(fs, target,
                               [held EXCEPT ![a.section] =
                                   [k \in {a.key} |-> value]]),
                  address |-> a,
                  out |-> Echoed({})]

\* den config set SECTION [KEY] VALUE: the files after it, the address it
\* resolved and its outcome; `section` is the tuple of the one or two
\* address tokens
set_value(fs, target, section, value) ==
    LET a == IF Len(section) = 1 THEN _expand(section[1], None, TRUE)
             ELSE _expand(section[1], section[2], TRUE)
    IN  IF a.kind = "error"
        THEN [files |-> fs, address |-> a,
              out |-> Raised(a.type, <<a.text>>, {})]
        ELSE LET parser == FreshParser(fs, target)
                 held == IF a.section \in DOMAIN parser THEN parser
                         ELSE add_section(parser, a.section)
             IN  [files |-> _modify_config(fs, target,
                               ParserSet(held, a.section, a.key, value)),
                  address |-> a,
                  out |-> Echoed({})]

\* delete writing the parser also when the body of the block raised
delete_always_writing(fs, target, section, key, confirmed) ==
    LET t == _expand(section, key, FALSE)
        parser == FreshParser(fs, target)
        removing == {_format(<<"Removing ">> \o t.section \o <<DOT>>
                                 \o t.key \o <<DOT>>)}
    IN  IF t.key = None /\ ~confirmed
        THEN [files |-> fs, out |-> Raised("Abort", <<"Aborted!">>, {})]
        ELSE IF t.key = None
        THEN [files |-> _modify_config(fs, target,
                                       remove_section(parser, t.section)),
              out |-> Echoed({})]
        ELSE IF t.section \notin DOMAIN parser
        THEN [files |-> _modify_config(fs, target, parser),
              out |-> NoSectionError(t.section, removing)]
        ELSE [files |-> _modify_config(fs, target,
                           remove_option(parser, t.section, t.key)),
              out |-> Echoed(removing)]

\* den config rm SECTION [KEY]: the files after it and its outcome;
\* `confirmed` is the answer to the prompt for the removal of a section
delete(fs, target, section, key, confirmed) ==
    LET t == _expand(section, key, FALSE)
        parser == FreshParser(fs, target)
        removing == {_format(<<"Removing ">> \o t.section \o <<DOT>>
                                 \o t.key \o <<DOT>>)}
    IN  IF t.key = None /\ ~confirmed
        THEN [files |-> fs, out |-> Raised("Abort", <<"Aborted!">>, {})]
        ELSE IF t.key = None
        THEN [files |-> _modify_config(fs, target,
                                       remove_section(parser, t.section)),
              out |-> Echoed({})]
        ELSE IF t.section \notin DOMAIN parser
        THEN [files |-> fs, out |-> NoSectionError(t.section, removing)]
        ELSE [files |-> _modify_config(fs, target,
                           remove_option(parser, t.section, t.key)),
              out |-> Echoed(removing)]

\* interact_alias storing only the first token of the command
interact_alias_first_token(fs, user, alias, command) ==
    LET target == target_config(user)
    IN  IF command # <<>>
        THEN LET r == set_value(fs, target, <<ALIAS_SECTION, alias>>,
                                command[1])
             IN  [files |-> r.files, address |-> r.address, out |-> r.out]
        ELSE LET g == get_value(fs, target, ALIAS_SECTION, alias,
                                ALIAS_OUTPUT_FORMAT)
             IN  [files |-> fs, address |-> NoCall,
                  out |-> IF g.type = "MissingConfigurationException"
                          THEN NoAliasException(alias) ELSE g]

\* den alias ALIAS [COMMAND...]: the files after it and its outcome
interact_alias(fs, user, alias, command) ==
    LET target == target_config(user)
    IN  IF command # <<>>
        THEN LET r == set_value(fs, target, <<ALIAS_SECTION, alias>>,
                                Joined(command))
             IN  [files |-> r.files, address |-> r.address, out |-> r.out]
        ELSE LET g == get_value(fs, target, ALIAS_SECTION, alias,
                                ALIAS_OUTPUT_FORMAT)
             IN  [files |-> fs, address |-> NoCall,
                  out |-> IF g.type = "MissingConfigurationException"
                          THEN NoAliasException(alias) ELSE g]

----------------------------------------------------------------------------
(* Runs of the configuration commands *)

\* the SECTION [KEY] tokens typed in the runs: two tokens, or one token
\* that is dotted or bare; the section x.a and the key a.a hold a dot
TypedAddresses ==
    LET a == <<Letters[1]>>
        dotted_section == OTHER_SECTION \o <<DOT>> \o a
        dotted_key == a \o <<DOT>> \o a
    IN  {<<OTHER_SECTION, a>>,
         <<OTHER_SECTION \o <<DOT>> \o a>>,
         <<dotted_section, a>>,
         <<dotted_section \o <<DOT>> \o a>>,
         <<OTHER_SECTION, dotted_key>>,
         <<OTHER_SECTION>>}

\* the VALUE tokens typed in the runs: words, and a word after a blank
TypedValues == Words \cup {<<SPACE, Letters[1]>>}

\* the KEY argument click passes for the typed tokens
KeyOf(typed) == IF Len(typed) = 1 THEN None ELSE typed[2]

\* what a run records of a command: the command line, the outcome, and
\* for a set the value an earlier set of the run had given the option
Ran(command, user, typed, value, out, before) ==
    [called |-> TRUE, command |-> command, user |-> user, typed |-> typed,
     value |-> value, out |-> out, before |-> before]

\* the record of the sets of a run after option e was set to value
SetLatest(sets, e, value) ==
    [x \in DOMAIN sets \cup {e} |-> IF x = e THEN value ELSE sets[x]]

\* the value the sets of the run had given option e, if any
SetBefore(sets, e) == IF e \in DOMAIN sets THEN sets[e] ELSE None

\* den [config] ...: the den group loads the layered Config of this process
\* before the command runs
GroupCallback == config' = ContextConfig(NotLoaded, files)

\* den config [-u] set SECTION [KEY] VALUE
RunSet(user, typed, value) ==
    LET r == set_value(files, target_config(user), typed, value)
        e == <<target_config(user), r.address.section, r.address.key>>
    IN  /\ GroupCallback
        /\ files' = r.files
        /\ lastCommand' = Ran("set", user, typed, value, r.out,
                               IF r.out.kind # "ok" THEN None
                               ELSE SetBefore(lastSet, e))
        /\ lastSet' = IF r.out.kind # "ok" THEN lastSet
                       ELSE SetLatest(lastSet, e, value)
        /\ UNCHANGED <<commands, hasConfig, args, firstError, findCalled,
                       aliasUsed, result, lastGet, lastSection, addressVars,
                       engineVars>>

\* den config [-u] get SECTION [KEY]
RunGet(user, typed) ==
    /\ GroupCallback
    /\ lastCommand' =
          Ran("get", user, typed, None,
              get_value(files, target_config(user), typed[1], KeyOf(typed),
                        GET_OUTPUT_FORMAT),
              None)
    /\ UNCHANGED <<commands, files, hasConfig, args, firstError, findCalled,
                   aliasUsed, result, lastGet, lastSection, lastSet,
                   addressVars, engineVars>>

\* den config [-u] rm SECTION [KEY]
RunRm(user, typed, confirmed) ==
    LET r == delete(files, target_config(user), typed[1], KeyOf(typed),
                    confirmed)
    IN  /\ GroupCallback
        /\ files' = r.files
        /\ lastCommand' = Ran("rm", user, typed, None, r.out, None)
        /\ UNCHANGED <<commands, hasConfig, args, firstError, findCalled,
                       aliasUsed, result, lastGet, lastSection, lastSet,
                       addressVars, engineVars>>

\* den alias [-u] ALIAS [COMMAND...]
RunAlias(user, alias, command) ==
    LET r == interact_alias(files, user, alias, command)
        e == <<target_config(user), ALIAS_SECTION, alias>>
    IN  /\ GroupCallback
        /\ files' = r.files
        /\ lastCommand' = Ran("alias", user, <<alias>>, command, r.out,
                               IF command = <<>> \/ r.out.kind # "ok"
                               THEN None ELSE SetBefore(lastSet, e))
        /\ lastSet' = IF command = <<>> \/ r.out.kind # "ok" THEN lastSet
                       ELSE SetLatest(lastSet, e, Joined(command))
        /\ UNCHANGED <<commands, hasConfig, args, firstError, findCalled,
                       aliasUsed, result, lastGet, lastSection, addressVars,
                       engineVars>>

\* section x defining the first word as the second
OneOption ==
    [s \in {OTHER_SECTION} |-> [k \in {<<Letters[1]>>} |-> <<Letters[2]>>]]

\* the files the runs of config set start from: missing, empty, or with
\* section x defining the first or the second word
SetFiles ==
    {MissingFile, File(EmptyParser)} \cup
    {File(d) : d \in FileDatas({OTHER_SECTION}, Words, {<<Letters[2]>>}, 1)
                        \ {EmptyParser}}

InitSet ==
    /\ commands = {}
    /\ hasConfig = TRUE
    /\ \E local \in SetFiles, user \in {MissingFile, File(OneOption)} :
          files = [p \in {LOCAL_CONFIG_FILE, USER_CONFIG_FILE} |->
                     IF p = LOCAL_CONFIG_FILE THEN local ELSE user]
    /\ config = NotLoaded
    /\ args = <<>>
    /\ firstError = NoCommand
    /\ findCalled = FALSE
    /\ aliasUsed = NoAlias
    /\ result = NoResult
    /\ lastGet = NoGet
    /\ lastSection = NoGet
    /\ NothingElseRun

\* the run has only set options so far
OnlySets == IF lastCommand.called THEN lastCommand.command = "set" ELSE TRUE

\* a further set on the file the run has been setting, within MaxSets options
SetAgain ==
    /\ OnlySets
    /\ \E user \in BOOLEAN :
          /\ \A e \in DOMAIN lastSet : e[1] = target_config(user)
          /\ \E typed \in TypedAddresses, value \in TypedValues :
                /\ RunSet(user, typed, value)
                /\ Cardinality(DOMAIN lastSet') <= MaxSets

\* the read that ends the run
GetLast ==
    /\ OnlySets
    /\ \E user \in BOOLEAN, typed \in TypedAddresses : RunGet(user, typed)

NextSet == SetAgain \/ GetLast

SpecSet == InitSet /\ [][NextSet]_vars

\* the files a single configuration command starts from: the local file is
\* any file of the layering model, the user file is missing, holds section x
\* or holds an alias
OneAlias ==
    [s \in {ALIAS_SECTION} |-> [k \in {<<Letters[1]>>} |-> <<Letters[2]>>]]

\* the COMMAND tokens typed after `den alias ALIAS`: none for a query
TypedCommands == SeqsUpTo(Words, MaxExpansion)

InitMutate ==
    /\ commands = {}
    /\ hasConfig = TRUE
    /\ \E local \in ConfigFiles, user \in {MissingFile, File(OneOption), File(OneAlias)} :
          files = [p \in {LOCAL_CONFIG_FILE, USER_CONFIG_FILE} |->
                     IF p = LOCAL_CONFIG_FILE THEN local ELSE user]
    /\ config = NotLoaded
    /\ args = <<>>
    /\ firstError = NoCommand
    /\ findCalled = FALSE
    /\ aliasUsed = NoAlias
    /\ result = NoResult
    /\ lastGet = NoGet
    /\ lastSection = NoGet
    /\ NothingElseRun

\* one den config set
SetOnce ==
    /\ ~lastCommand.called
    /\ \E user \in BOOLEAN, typed \in TypedAddresses, value \in TypedValues :
          RunSet(user, typed, value)

\* one den config rm, with either answer to the prompt
RmOnce ==
    /\ ~lastCommand.called
    /\ \E user \in BOOLEAN, typed \in TypedAddresses, confirmed \in BOOLEAN :
          RunRm(user, typed, confirmed)

\* one den alias, defining or querying an alias
AliasOnce ==
    /\ ~lastCommand.called
    /\ \E user \in BOOLEAN, alias \in Words, command \in TypedCommands :
          RunAlias(user, alias, command)

NextMutate == SetOnce \/ RmOnce \/ AliasOnce

SpecMutate == InitMutate /\ [][NextMutate]_vars

----------------------------------------------------------------------------
(* Runs that define an alias and then dispatch on it *)

\* the names registered in these runs: the words, and names they begin
RegisteredNames ==
    Words \cup {<<Letters[1], Letters[1]>>, <<Letters[1], Letters[2]>>,
                <<Letters[2], Letters[1]>>}

\* a COMMAND token: a word, the empty string, or two words with a blank
\* between them
CommandTokens ==
    Words \cup {<<>>, <<Letters[2], SPACE, Letters[1]>>}

InitAlias ==
    /\ commands \in SubsetsUpTo(RegisteredNames, MaxCommands)
    /\ hasConfig = TRUE
    /\ \E local \in {MissingFile, File(EmptyParser), File(OneAlias)},
          user \in {MissingFile, File(OneAlias)} :
          files = [p \in {LOCAL_CONFIG_FILE, USER_CONFIG_FILE} |->
                     IF p = LOCAL_CONFIG_FILE THEN local ELSE user]
    /\ config = NotLoaded
    /\ args = <<>>
    /\ firstError = NoCommand
    /\ findCalled = FALSE
    /\ aliasUsed = NoAlias
    /\ result = NoResult
    /\ lastGet = NoGet
    /\ lastSection = NoGet
    /\ NothingElseRun

\* den alias [-u] ALIAS [--] COMMAND...
DefineAlias ==
    /\ ~lastCommand.called
    /\ \E user \in BOOLEAN, alias \in Words,
          command \in SeqsUpTo(CommandTokens, MaxExpansion) \ {<<>>} :
          RunAlias(user, alias, command)

\* den returns and is started again: run() builds a new Context, whose
\* Config is not loaded
NewProcess ==
    /\ lastCommand.called
    /\ config.loaded
    /\ result = NoResult
    /\ config' = NotLoaded
    /\ UNCHANGED <<commands, files, hasConfig, args, firstError, findCalled,
                   aliasUsed, result, lastGet, lastSection, addressVars,
                   commandVars, engineVars>>

\* den WORD extra... in the new process
ResolveAfter ==
    /\ lastCommand.called
    /\ ~config.loaded
    /\ \E t \in Words, rest \in Rests : ResolveCommand(<<t>> \o rest)

NextAlias == DefineAlias \/ NewProcess \/ ResolveAfter

SpecAlias == InitAlias /\ [][NextAlias]_vars

----------------------------------------------------------------------------
(* The lifecycle commands: commands.dens, shell.run and utils.uses_docker *)

PyTrue == <<"True">>

PyFalse == <<"False">>

DEFAULT_SECTION == <<"default">>

IMAGE_SECTION == <<"image">>

PORTS_SECTION == <<"ports">>

\* context.debug as den() sets it: the -d flag, else the [default] debug
\* option, a string, or None
context_debug(flag, parser) ==
    IF flag THEN PyTrue ELSE get(parser, DEFAULT_SECTION, <<"debug">>, None)

\* context.cwd, the base directory of the project den runs in
PROJECT_DIR == <<"/", "p">>

\* os.path.basename
RECURSIVE basename(_)
basename(path) ==
    LET i == IndexFrom(path, "/", 1)
    IN  IF i = 0 THEN path ELSE basename(SubSeq(path, i + 1, Len(path)))

\* context.default_name
default_name == basename(PROJECT_DIR)

\* str(n) of an int that is not negative
RECURSIVE str(_)
str(n) ==
    LET digits == <<"0", "1", "2", "3", "4", "5", "6", "7", "8", "9">>
    IN  IF n < 10 THEN <<digits[n + 1]>>
        ELSE str(n \div 10) \o <<digits[(n % 10) + 1]>>

\* re.sub(" +", " ", cmd)
RECURSIVE squeeze(_)
squeeze(cmd) ==
    IF Len(cmd) < 2 THEN cmd
    ELSE IF cmd[1] = SPACE /\ cmd[2] = SPACE THEN squeeze(Tail(cmd))
    ELSE <<cmd[1]>> \o squeeze(Tail(cmd))

DOCKER_CREATE_CMD(name, cwd, extra_args, image) ==
    <<"docker", SPACE, "create", SPACE, "--hostname", SPACE>> \o name
        \o <<SPACE, "--interactive", SPACE, "--label", SPACE, "den", SPACE,
             "--name", SPACE>> \o name
        \o <<SPACE, "--tty", SPACE, "--volume", SPACE>> \o cwd
        \o <<":/src">> \o extra_args \o <<SPACE>> \o image

DOCKER_START_CMD(name) ==
    <<"docker", SPACE, "start", SPACE, "--attach", SPACE, "--interactive",
      SPACE>> \o name

DOCKER_STOP_CMD(name) ==
    <<"docker", SPACE, "stop", SPACE, "--time", SPACE, "1", SPACE>> \o name

DOCKER_DELETE_CMD(name) ==
    <<"docker", SPACE, "rm", SPACE, "--force", SPACE>> \o name

CommandFailure(cmd, exitcode) ==
    Raised("CommandFailure",
           <<"command: ">> \o cmd \o <<" failed with ">> \o str(exitcode), {})

UndefinedImageException ==
    Raised("UndefinedImageException",
           <<"There is no defined image to build off of.">>, {})

DockerConnectionException(cause) ==
    Raised("DockerConnectionException",
           cause \o <<", ensure that docker is running and that you have ",
                      "permissions to talk to it.">>,
           {})

\* what a piece of a command has done: the engine commands it ran, each
\* with the exit status of the child, and its outcome
Done(calls, out) == [calls |-> calls, out |-> out]

\* first, and then second unless first raised
AndThen(first, second) ==
    IF first.out.kind = "error" THEN first
    ELSE Done(first.calls \o second.calls,
              [second.out EXCEPT
                  !.printed = first.out.printed \cup second.out.printed])

\* shell.run(cmd, suppress=suppress), waiting for a child that exits with
\* returncode
run(cmd, suppress, returncode) ==
    LET c == squeeze(cmd)
    IN  Done(<<[cmd |-> c, code |-> returncode]>>,
             IF suppress THEN Echoed({})
             ELSE IF returncode # 0 THEN CommandFailure(c, returncode)
             ELSE Echoed({}))

\* `with log.report_success(msg, **keywords): body` on a CLILogger, whose
\* report_success takes msg alone: with a keyword the call raises a
\* TypeError and the body is not run
report_success(msg, keywords, body) ==
    IF keywords # {}
    THEN Done(<<>>,
              Raised("TypeError",
                     <<"report_success() got an unexpected keyword argument">>,
                     {}))
    ELSE Done(body.calls,
              [body.out EXCEPT
                  !.printed = {_format(msg) \o <<"...">>}
                                  \cup body.out.printed])

\* start_den(context, name)
start_den(name, returncode) ==
    LET n == IF Truthy(name) THEN name ELSE default_name
        r == run(DOCKER_START_CMD(n), TRUE, returncode)
    IN  Done(r.calls,
             Echoed({_format(<<"Starting ", BACKQUOTE>> \o n
                                 \o <<BACKQUOTE, " environment...">>)}))

\* the --publish arguments create_den adds for the [ports] section
RECURSIVE Published(_, _)
Published(ports, guests) ==
    IF guests = <<>> THEN <<>>
    ELSE <<IF Truthy(ports[guests[1]])
           THEN <<"--publish", SPACE>> \o guests[1] \o <<":">>
                    \o ports[guests[1]]
           ELSE guests[1]>> \o Published(ports, Tail(guests))

\* create_den(context, start, image, with_docker, with_ssh, name, cmd,
\* device), the options and arguments being the fields of `given`;
\* ssh_agent is os.environ.get("SSH_AUTH_SOCK"), codes are the exit statuses
\* of the children in the order they are run
create_den(parser, given, ssh_agent, codes) ==
    LET start == given.start
        image == given.image
        with_docker == given.with_docker
        with_ssh == given.with_ssh
        name == given.name
        cmd == given.cmd
        device == given.device
        use_default == image = None
        image1 == IF Truthy(image) THEN image
                  ELSE get(parser, IMAGE_SECTION, <<"default">>, PyFalse)
        name1 == IF Truthy(name) THEN name
                 ELSE get(parser, IMAGE_SECTION, <<"name">>, default_name)
        cmd1 == IF cmd # <<>> THEN Joined(cmd)
                ELSE get(parser, IMAGE_SECTION, <<"command">>, None)
        cwd == IF PROJECT_DIR[Len(PROJECT_DIR)] = "/" THEN PROJECT_DIR
               ELSE PROJECT_DIR \o <<"/">>
        ports == get_section(parser, PORTS_SECTION)
        extra_args ==
            <<<<>>>>
            \o (IF with_docker
                THEN <<<<"--volume", SPACE,
                         "/var/run/docker.sock:/var/run/docker.sock">>,
                       <<"--volume", SPACE, "~", "/.docker:/root/.docker">>>>
                ELSE <<>>)
            \o (IF with_ssh /\ Truthy(ssh_agent)
                THEN <<<<"--volume", SPACE>> \o ssh_agent
                           \o <<":/var/run/ssh_agent.sock">>,
                       <<"--env", SPACE,
                         "SSH_AUTH_SOCK=/var/run/ssh_agent.sock">>>>
                ELSE <<>>)
            \o (IF Truthy(device) THEN <<<<"--device", SPACE>> \o device>>
                ELSE <<>>)
            \o Published(ports, sorted(DOMAIN ports))
        cmd2 == IF Truthy(cmd1) THEN <<SPACE>> \o cmd1 ELSE <<>>
    IN  IF ~Truthy(image1) \/ image1 = PyFalse THEN Done(<<>>, UndefinedImageException)
        ELSE AndThen(
               report_success(
                   <<"Creating den environment ", BACKQUOTE>> \o name1
                       \o <<BACKQUOTE, " with ", BACKQUOTE>>
                       \o (IF use_default THEN <<"default">> ELSE image1)
                       \o <<BACKQUOTE, " base">>,
                   {"debug"},
                   run(DOCKER_CREATE_CMD(name1, cwd, Joined(extra_args),
                                         image1) \o cmd2,
                       FALSE, codes[1])),
               IF start THEN start_den(name1, codes[2])
               ELSE Done(<<>>, Echoed({})))

\* stop_den(context, delete, name), with delete_flag for `delete`;
\* delete_den.callback([name]) binds the list to `all` and leaves `names`
\* missing
stop_den(delete_flag, name, codes) ==
    LET n == IF Truthy(name) THEN name ELSE default_name
    IN  AndThen(
          report_success(<<"Spinning down ", BACKQUOTE>> \o n
                             \o <<BACKQUOTE, " environment">>,
                         {"debug"},
                         run(DOCKER_STOP_CMD(n), FALSE, codes[1])),
          IF delete_flag
          THEN Done(<<>>,
                    Raised("TypeError",
                           <<"delete_den() missing 1 required positional ",
                             "argument: ", "names">>,
                           {}))
          ELSE Done(<<>>, Echoed({})))

\* requests.exceptions.ConnectionError out of context.docker
RequestsConnectionError ==
    Raised("ConnectionError", <<"Connection aborted.">>, {})

\* the loop of delete_den over names[i..]
RECURSIVE RemoveEach(_, _, _)
RemoveEach(names, codes, i) ==
    IF i > Len(names) THEN Done(<<>>, Echoed({}))
    ELSE AndThen(
           report_success(<<"Removing the ", BACKQUOTE>> \o names[i]
                              \o <<BACKQUOTE, " environment">>,
                          {"debug", "abort"},
                          run(DOCKER_DELETE_CMD(names[i]), FALSE, codes[i])),
           RemoveEach(names, codes, i + 1))

\* delete_den(context, all, names), the function uses_docker wraps;
\* `confirmed` is the answer to the prompt of --all
delete_den(all, names, listing, confirmed, codes) ==
    IF all
    THEN IF listing.kind = "error" THEN Done(<<>>, listing)
         ELSE LET found == [i \in 1..Len(listing.containers) |->
                               listing.containers[i].name]
              IN  IF found # <<>> /\ ~confirmed
                  THEN Done(<<>>, Raised("Abort", <<"Aborted!">>, {}))
                  ELSE RemoveEach(found, codes, 1)
    ELSE IF names = <<>> THEN RemoveEach(<<default_name>>, codes, 1)
    ELSE RemoveEach(names, codes, 1)

\* "{:w}".format(s) of a string
RECURSIVE ljust(_, _)
ljust(s, width) == IF Len(s) >= width THEN s ELSE ljust(s \o <<SPACE>>, width)

\* utils.align_table(table_data, min_length=min_length): the lines
align_table(table_data, min_length) ==
    LET lengths(column) ==
            {min_length} \cup {Len(table_data[r][column]) :
                                   r \in 1..Len(table_data)}
        width(column) ==
            CHOOSE x \in lengths(column) : \A y \in lengths(column) : y <= x
    IN  [r \in 1..Len(table_data) |->
            ljust(table_data[r][1], width(1)) \o <<SPACE>>
                \o ljust(table_data[r][2], width(2)) \o <<SPACE>>
                \o ljust(table_data[r][3], width(3)) \o <<SPACE>>]

\* list_dens(context, running), the function uses_docker wraps: one echo of
\* the aligned table
list_dens(running, listing) ==
    IF listing.kind = "error" THEN Done(<<>>, listing)
    ELSE LET rows == [i \in 1..Len(listing.containers) |->
                        LET c == listing.containers[i]
                        IN  <<c.name, c.status,
                              IF c.tags # <<>> THEN c.tags[1]
                              ELSE c.short_id>>]
             output == <<<<<<"N", "A", "M", "E">>,
                           <<"S", "T", "A", "T", "U", "S">>,
                           <<"I", "M", "A", "G", "E">>>>>> \o rows
         IN  Done(<<>>, Echoed({align_table(output, 8)}))

\* uses_docker masking the connection failure also in debug mode
uses_docker_always_masked(debug, inner) ==
    IF inner.out.kind = "error" /\ inner.out.type = "ConnectionError"
    THEN Done(inner.calls,
              DockerConnectionException(<<"Failed to connect to the daemon">>))
    ELSE inner

\* capture_function of uses_docker around a function that did `inner`
uses_docker(debug, inner) ==
    IF inner.out.kind = "error" /\ inner.out.type = "ConnectionError"
    THEN IF Truthy(debug) /\ debug # PyFalse THEN inner
         ELSE Done(inner.calls,
                   DockerConnectionException(
                       <<"Failed to connect to the daemon">>))
    ELSE inner

----------------------------------------------------------------------------
(* Runs of the lifecycle commands *)

\* the exit statuses of the engine's commands
ExitCodes == {0, 1, 125}

\* the local files of these runs: with the debug option, an image, a name
\* and a command, or a port
EngineFiles ==
    {MissingFile} \cup
    {File(DataOf({e[1] : e \in es}, es)) :
        es \in {{<<DEFAULT_SECTION, <<"debug">>, <<"1">>>>},
                {<<DEFAULT_SECTION, <<"debug">>, <<"0">>>>},
                {<<IMAGE_SECTION, <<"default">>, <<"i">>>>},
                {<<IMAGE_SECTION, <<"default">>, <<"i">>>>,
                 <<IMAGE_SECTION, <<"name">>, <<"n">>>>,
                 <<IMAGE_SECTION, <<"command">>, <<"c">>>>},
                {<<IMAGE_SECTION, <<"default">>, <<"i">>>>,
                 <<PORTS_SECTION, <<"8", "0">>, <<"8", "0", "8", "0">>>>}}}

\* what context.docker.containers.list answers: a connection failure,
\* another error of the engine's API, or the containers, one running off a
\* tagged image and one exited off an image without a tag
Listings ==
    LET containers ==
            {[name |-> <<Letters[1]>>, status |-> <<"running">>,
              tags |-> <<<<"t">>>>, short_id |-> <<"s">>],
             [name |-> <<Letters[2]>>, status |-> <<"exited">>,
              tags |-> <<>>, short_id |-> <<"s">>]}
    IN  {RequestsConnectionError,
         Raised("APIError", <<"500 Server Error">>, {})}
        \cup {[kind |-> "ok", containers |-> cs] :
                 cs \in SeqsUpTo(containers, MaxDens)}

InitEngine ==
    /\ commands = {}
    /\ hasConfig = TRUE
    /\ \E local \in EngineFiles :
          files = [p \in {LOCAL_CONFIG_FILE, USER_CONFIG_FILE} |->
                     IF p = LOCAL_CONFIG_FILE THEN local ELSE MissingFile]
    /\ config = NotLoaded
    /\ args = <<>>
    /\ firstError = NoCommand
    /\ findCalled = FALSE
    /\ aliasUsed = NoAlias
    /\ result = NoResult
    /\ lastGet = NoGet
    /\ lastSection = NoGet
    /\ NothingElseRun

\* den [-d] <command>: the group callback, then the command function; the
\* run records the command line, the value of context.debug, the engine
\* commands run, the outcome of the command function and the outcome of
\* the command
RunLifecycle(command, argv, debug, inner, done) ==
    /\ GroupCallback
    /\ engine' =
          [called |-> TRUE, command |-> command, argv |-> argv,
           debug |-> context_debug(debug,
                                   ContextConfig(config, files).parser),
           calls |-> done.calls, inner |-> inner.out, out |-> done.out]
    /\ UNCHANGED <<commands, files, hasConfig, args, firstError, findCalled,
                   aliasUsed, result, lastGet, lastSection, addressVars,
                   commandVars, logger>>

\* den [-d] create [-s] [-i IMAGE] [--with-docker] [--with-ssh]
\* [--device DEV] [NAME] [CMD...]
RunCreate ==
    /\ ~engine.called
    /\ \E debug \in BOOLEAN, start \in BOOLEAN, image \in {None, <<"j">>},
          name \in {None} \cup Words, cmd \in {<<>>, <<<<"sh">>>>},
          with \in {<<FALSE, FALSE, None, None>>,
                    <<TRUE, FALSE, None, None>>,
                    <<FALSE, TRUE, None, None>>,
                    <<FALSE, TRUE, <<"/s">>, None>>,
                    <<FALSE, FALSE, None, <<"/dev/d">>>>},
          codes \in [1..2 -> ExitCodes] :
          LET given == [start |-> start, image |-> image,
                        with_docker |-> with[1], with_ssh |-> with[2],
                        name |-> name, cmd |-> cmd, device |-> with[4]]
              done == create_den(ContextConfig(config, files).parser, given,
                                 with[3], codes)
          IN  RunLifecycle("create", given, debug, done, done)

\* den [-d] start [NAME]
RunStart ==
    /\ ~engine.called
    /\ \E debug \in BOOLEAN, name \in {None} \cup Words, code \in ExitCodes :
          LET done == start_den(name, code)
          IN  RunLifecycle("start", [name |-> name], debug, done, done)

\* den [-d] stop [-d] [NAME]
RunStop ==
    /\ ~engine.called
    /\ \E debug \in BOOLEAN, delete_flag \in BOOLEAN, name \in {None} \cup Words,
          codes \in [1..1 -> ExitCodes] :
          LET done == stop_den(delete_flag, name, codes)
          IN  RunLifecycle("stop", [delete |-> delete_flag, name |-> name],
                           debug, done, done)

\* den [-d] delete [-a] [NAMES...]
RunDelete ==
    /\ ~engine.called
    /\ \E debug \in BOOLEAN, all \in BOOLEAN,
          names \in SeqsUpTo(Words, MaxDens), listing \in Listings,
          confirmed \in BOOLEAN, codes \in [1..MaxDens -> ExitCodes] :
          LET inner == delete_den(all, names, listing, confirmed, codes)
              d == context_debug(debug, ContextConfig(config, files).parser)
          IN  RunLifecycle("delete", [all |-> all, names |-> names], debug,
                           inner, uses_docker(d, inner))

\* den [-d] list [-r]
RunList ==
    /\ ~engine.called
    /\ \E debug \in BOOLEAN, running \in BOOLEAN, listing \in Listings :
          LET inner == list_dens(running, listing)
              d == context_debug(debug, ContextConfig(config, files).parser)
          IN  RunLifecycle("list", [running |-> running], debug, inner,
                           uses_docker(d, inner))

NextEngine == RunCreate \/ RunStart \/ RunStop \/ RunDelete \/ RunList

SpecEngine == InitEngine /\ [][NextEngine]_vars

----------------------------------------------------------------------------
(* The logger: log.CLILogger *)

INFO == 20

WARNING == 30

ERROR == 40

\* the loggers of den.cli and of den.shell
LoggerNames == {"den", "den.shell"}

\* the CLILoggers after logging.getLogger has constructed them, with the
\* effective level that setup has given them: every instance holds a
\* _pending_log of its own, False; the class holds none yet, and pending
\* is FALSE for it until report_success assigns one
CLILogger(level) ==
    [level |-> level,
     pending |-> FALSE,
     own_pending |-> [name \in LoggerNames |-> FALSE],
     out |-> <<>>,
     step |-> "none",
     raised |-> FALSE]

\* click.echo and click.secho: the text reaches the terminal, followed by a
\* newline unless nl is off
echo(L, kind, text, nl) ==
    [L EXCEPT !.out = Append(@, [kind |-> kind, text |-> text, nl |-> nl])]

\* CLIFormatter.format with DEFAULT_FORMAT: the styled short name of the
\* level, then the message
CLIFormatter(level, msg) ==
    (IF level = INFO THEN style(<<"INFO">>, "green")
     ELSE style(<<"ERR">>, "red")) \o <<" - ">> \o _format(msg)

\* CLILogger._log on the logger `name`: self._pending_log is the attribute
\* of the instance; then logging.Logger._log hands the record to the
\* handler, which writes it as a line
_log(L, name, level, msg) ==
    LET closed == IF L.own_pending[name]
                  THEN [echo(L, "newline", <<>>, TRUE) EXCEPT
                           !.own_pending[name] = FALSE]
                  ELSE L
    IN  echo(closed, "record", CLIFormatter(level, msg), TRUE)

\* report_success up to its yield: the step text, and the _pending_log of
\* the class set
open_step(L, msg) ==
    [echo(L, "step", _format(msg) \o <<"...">>, L.level < WARNING) EXCEPT
        !.pending = TRUE, !.step = "open"]

\* report_success after its yield, the body having returned or raised an
\* Exception, which is raised again
close_step(L, raised) ==
    IF ~raised
    THEN [echo(L, "done", style(<<"done">>, "green"), TRUE) EXCEPT
             !.step = "closed"]
    ELSE [(IF L.pending
           THEN echo(L, "error", style(<<"error">>, "red"), TRUE)
           ELSE L) EXCEPT !.step = "closed", !.raised = TRUE]

----------------------------------------------------------------------------
(* Runs of the logger *)

InitLogger ==
    /\ commands = {}
    /\ hasConfig = TRUE
    /\ files = [p \in {LOCAL_CONFIG_FILE, USER_CONFIG_FILE} |-> MissingFile]
    /\ config = NotLoaded
    /\ args = <<>>
    /\ firstError = NoCommand
    /\ findCalled = FALSE
    /\ aliasUsed = NoAlias
    /\ result = NoResult
    /\ lastGet = NoGet
    /\ lastSection = NoGet
    /\ expanded = NoCall
    /\ lastCommand = NoCall
    /\ lastSet = EmptyParser
    /\ engine = NoCall
    /\ logger \in {CLILogger(level) : level \in {INFO, WARNING}}

Logging(L) ==
    /\ logger' = L
    /\ UNCHANGED <<commands, files, hasConfig, config, args, firstError,
                   findCalled, aliasUsed, result, lastGet, lastSection,
                   addressVars, commandVars, engine>>

\* logger.info(msg) or logger.error(msg) on one of the loggers: the message
\* reaches _log when the logger is enabled for its level
Log ==
    /\ Len(SelectSeq(logger.out, LAMBDA e : e.kind = "record")) < MaxLogs
    /\ \E name \in LoggerNames, level \in {INFO, ERROR}, msg \in Words :
          /\ level >= logger.level
          /\ Logging(_log(logger, name, level, msg))

\* with logger.report_success(msg): entered
EnterStep ==
    /\ logger.step = "none"
    /\ Logging(open_step(logger, <<"Removing ", BACKQUOTE, "x", BACKQUOTE>>))

\* the body of the with block returns or raises
LeaveStep ==
    /\ logger.step = "open"
    /\ \E raised \in BOOLEAN : Logging(close_step(logger, raised))

NextLogger == Log \/ EnterStep \/ LeaveStep

SpecLogger == InitLogger /\ [][NextLogger]_vars

----------------------------------------------------------------------------
(* Properties of command resolution, checked under Spec *)

\* p is a prefix of s, stated without startswith
IsPrefix(p, s) == Len(p) <= Len(s) /\ \A i \in 1..Len(p) : p[i] = s[i]

\* the registered names the typed token is a prefix of
Matching(t) == {c \in commands : IsPrefix(t, c)}

\* the values some existing configuration file gives the alias t
AliasValues(t) ==
    {files[p].data[ALIAS_SECTION][t] :
        p \in {q \in DOMAIN files :
                 /\ hasConfig
                 /\ files[q].exists
                 /\ ALIAS_SECTION \in DOMAIN files[q].data
                 /\ t \in DOMAIN files[q].data[ALIAS_SECTION]}}

\* resolve_command has been called with the token t and the arguments rest
Called == result # NoResult

\* the call returned the handler cmd with the remaining arguments rest
Returned(cmd, rest) ==
    /\ result.kind = "ok"
    /\ result.cmd = cmd
    /\ result.rest = rest

\* the call failed with the usage error of this text about this token
Failed(text, name) ==
    /\ result.kind = "error"
    /\ result.text = text
    /\ result.name = name

\* C1: a token that is exactly a registered name resolves to the handler
\* registered under it, with args[1:] as the remaining arguments, whatever
\* the aliases are and whatever longer names it is a prefix of.
ExactMatchWins ==
    (Called /\ args[1] \in commands) => Returned(args[1], Tail(args))

ExactMatchWinsWitness ==
    /\ Called
    /\ args[1] \in commands
    /\ Tail(args) # <<>>
    /\ \E e \in AliasValues(args[1]) : e # <<>>
    /\ \E c \in commands : c # args[1] /\ IsPrefix(args[1], c)
    /\ Returned(args[1], Tail(args))

\* C2: a token that is no registered name and a prefix of exactly one
\* registered name resolves to that name's handler and forwards the
\* trailing arguments unchanged, without an error.
UniquePrefixResolves ==
    (Called /\ args[1] \notin commands) =>
        \A c \in commands : Matching(args[1]) = {c} => Returned(c, Tail(args))

UniquePrefixResolvesWitness ==
    /\ Called
    /\ args[1] \notin commands
    /\ Cardinality(commands) = 2
    /\ Tail(args) # <<>>
    /\ \E c \in commands : Matching(args[1]) = {c} /\ Returned(c, Tail(args))

\* C3: a token that is no registered name and a prefix of two or more
\* registered names fails with the ambiguous-match error, and no alias
\* expansion is used, even when an alias of that name is defined.
AmbiguityBeatsAlias ==
    (Called /\ args[1] \notin commands /\ Cardinality(Matching(args[1])) >= 2)
        => (Failed("ambiguous", args[1]) /\ result.names # <<>>)

\* C4: a token with no prefix match and an alias of a non-empty expansion
\* e = e1 .. en (split at the blanks) resolves as e1 .. en followed by the
\* trailing arguments does: e1 selects the command by exact or prefix match,
\* and e2 .. en followed by the trailing arguments are forwarded in that order.
AliasExpands ==
    (Called /\ Matching(args[1]) = {}) =>
        \A e \in AliasValues(args[1]) :
            (AliasValues(args[1]) = {e} /\ e # <<>>) =>
                /\ aliasUsed.found
                /\ Joined(aliasUsed.argv) = e
                /\ \A i \in 1..Len(aliasUsed.argv) :
                      \A j \in 1..Len(aliasUsed.argv[i]) :
                          aliasUsed.argv[i][j] # SPACE
                /\ LET e1 == aliasUsed.argv[1]
                       forwarded == Tail(aliasUsed.argv) \o Tail(args)
                   IN  /\ e1 \in commands => Returned(e1, forwarded)
                       /\ e1 \notin commands =>
                            /\ \A c \in commands :
                                  Matching(e1) = {c} => Returned(c, forwarded)
                            /\ Cardinality(Matching(e1)) >= 2 =>
                                  Failed("ambiguous", e1)
                            /\ Matching(e1) = {} =>
                                  Failed("No such command", e1)

AliasExpandsWitness ==
    /\ Called
    /\ Matching(args[1]) = {}
    /\ Tail(args) # <<>>
    /\ aliasUsed.found
    /\ Len(aliasUsed.argv) = 2
    /\ AliasValues(args[1]) = {Joined(aliasUsed.argv)}
    /\ aliasUsed.argv[1] \in commands
    /\ Tail(aliasUsed.argv) # Tail(args)
    /\ Returned(aliasUsed.argv[1], Tail(aliasUsed.argv) \o Tail(args))

\* C5: a token with no prefix match and no alias (also when the context has
\* no config) fails with the very command-not-found error the first
\* resolution attempt raised for it.
NotFoundPropagates ==
    (Called /\ Matching(args[1]) = {} /\ AliasValues(args[1]) = {}) =>
        /\ Failed("No such command", args[1])
        /\ result = firstError

NotFoundPropagatesWitness ==
    /\ Called
    /\ Matching(args[1]) = {}
    /\ commands # {}
    /\ hasConfig
    /\ files[LOCAL_CONFIG_FILE].exists
    /\ ALIAS_SECTION \in DOMAIN files[LOCAL_CONFIG_FILE].data
    /\ DOMAIN files[LOCAL_CONFIG_FILE].data[ALIAS_SECTION] # {}
    /\ AliasValues(args[1]) = {}
    /\ findCalled
    /\ result = firstError
    /\ Failed("No such command", args[1])

\* C6: an alias whose name is a registered name, or a prefix of exactly one
\* registered name, is never used, and find() is consulted only after the
\* exact and the prefix resolution of the typed token have failed.
AliasIsLastResort ==
    Called =>
        /\ (args[1] \in commands \/ Cardinality(Matching(args[1])) = 1) =>
              (~findCalled /\ ~aliasUsed.found /\ result.kind = "ok"
                 /\ result.cmd \in Matching(args[1]) /\ result.rest = Tail(args))
        /\ findCalled =>
              (args[1] \notin commands /\ Cardinality(Matching(args[1])) # 1)

AliasIsLastResortWitness ==
    /\ Called
    /\ args[1] \notin commands
    /\ Cardinality(Matching(args[1])) = 1
    /\ \E e \in AliasValues(args[1]) : e # <<>> /\ e \notin Matching(args[1])
    /\ ~findCalled
    /\ result.kind = "ok"

----------------------------------------------------------------------------
(* Properties of the layered configuration, checked under SpecConfig *)

\* the file at path p exists and gives section s the option k
Defines(p, s, k) ==
    /\ files[p].exists
    /\ s \in DOMAIN files[p].data
    /\ k \in DOMAIN files[p].data[s]

\* the file at path p does not exist or has no section s
LacksSection(p, s) == ~files[p].exists \/ s \notin DOMAIN files[p].data

\* C7: when the local and the user file both define (section, key), get
\* returns the value of the local file.
LocalWins ==
    lastGet.called =>
        ((Defines(LOCAL_CONFIG_FILE, lastGet.section, lastGet.key)
            /\ Defines(USER_CONFIG_FILE, lastGet.section, lastGet.key))
         => lastGet.value =
              files[LOCAL_CONFIG_FILE].data[lastGet.section][lastGet.key])

\* C8: when the local file lacks the section and the user file defines
\* (section, key), get returns the user file's value and get_section
\* contains that pair.
UserFallback ==
    /\ lastGet.called =>
         ((LacksSection(LOCAL_CONFIG_FILE, lastGet.section)
             /\ Defines(USER_CONFIG_FILE, lastGet.section, lastGet.key))
          => lastGet.value =
               files[USER_CONFIG_FILE].data[lastGet.section][lastGet.key])
    /\ lastSection.called =>
         \A k \in ConfigKeys :
            (LacksSection(LOCAL_CONFIG_FILE, lastSection.section)
               /\ Defines(USER_CONFIG_FILE, lastSection.section, k))
            => /\ k \in DOMAIN lastSection.value
               /\ lastSection.value[k] =
                    files[USER_CONFIG_FILE].data[lastSection.section][k]

UserFallbackWitness ==
    /\ lastGet.called
    /\ lastSection.called
    /\ lastSection.section = lastGet.section
    /\ files[LOCAL_CONFIG_FILE].exists
    /\ DOMAIN files[LOCAL_CONFIG_FILE].data # {}
    /\ LacksSection(LOCAL_CONFIG_FILE, lastGet.section)
    /\ Defines(USER_CONFIG_FILE, lastGet.section, lastGet.key)
    /\ lastGet.value # lastGet.default
    /\ lastGet.value = files[USER_CONFIG_FILE].data[lastGet.section][lastGet.key]
    /\ lastSection.value[lastGet.key] = lastGet.value

\* C9: get returns exactly the default it was given (None when none was
\* given) when no loaded file defines (section, key), and get_section
\* returns the empty mapping when no loaded file has the section.
AbsentGivesDefault ==
    /\ lastGet.called =>
         ((\A p \in DOMAIN files : ~Defines(p, lastGet.section, lastGet.key))
          => lastGet.value = lastGet.default)
    /\ lastSection.called =>
         ((\A p \in DOMAIN files : LacksSection(p, lastSection.section))
          => DOMAIN lastSection.value = {})

AbsentGivesDefaultWitness ==
    /\ lastGet.called
    /\ lastSection.called
    /\ lastGet.default # None
    /\ \E p \in DOMAIN files : ~LacksSection(p, lastGet.section)
    /\ \A p \in DOMAIN files : ~Defines(p, lastGet.section, lastGet.key)
    /\ lastGet.value = lastGet.default
    /\ \A p \in DOMAIN files : LacksSection(p, lastSection.section)
    /\ DOMAIN lastSection.value = {}

\* the parser after reading every file of paths[i..], in order
RECURSIVE ReadAll(_, _, _)
ReadAll(parser, paths, i) ==
    IF i > Len(paths) THEN parser
    ELSE ReadAll(ParserRead(parser, files[paths[i]].data), paths, i + 1)

\* C10: loading succeeds whichever files are missing; the loaded key space is
\* the one of reading only the files that exist, in the same order, and with
\* no file existing every get returns its default.
MissingFilesSkipped ==
    /\ config.loaded =>
         config.parser = ReadAll(EmptyParser,
                          SelectSeq(CONFIG_FILES, LAMBDA p : files[p].exists), 1)
    /\ (lastGet.called /\ \A p \in DOMAIN files : ~files[p].exists) =>
         lastGet.value = lastGet.default

MissingFilesSkippedWitness ==
    /\ config.loaded
    /\ ~files[LOCAL_CONFIG_FILE].exists
    /\ files[USER_CONFIG_FILE].exists
    /\ lastGet.called
    /\ Defines(USER_CONFIG_FILE, lastGet.section, lastGet.key)
    /\ config.parser = files[USER_CONFIG_FILE].data
    /\ lastGet.value = files[USER_CONFIG_FILE].data[lastGet.section][lastGet.key]

----------------------------------------------------------------------------
(* Properties of address expansion, checked under SpecExpand *)

\* the position of the first dot of s is i
FirstDotAt(s, i) ==
    /\ i \in 1..Len(s)
    /\ s[i] = DOT
    /\ \A j \in 1..(i - 1) : s[j] # DOT

HasDot(s) == \E i \in 1..Len(s) : s[i] = DOT

\* the outcome is the token cut at its first dot
CutAtFirstDot(s, out) ==
    /\ out.kind = "ok"
    /\ \E i \in 1..Len(s) :
          /\ FirstDotAt(s, i)
          /\ out.section = SubSeq(s, 1, i - 1)
          /\ out.key = SubSeq(s, i + 1, Len(s))

\* the outcome when no key takes part: a parameter error or a bare section
\* for a token without a dot, the cut at the first dot otherwise
WithoutKey(s, key_required, out) ==
    IF HasDot(s) THEN CutAtFirstDot(s, out)
    ELSE IF key_required THEN out.kind = "error" /\ out.type = "BadParameter"
    ELSE out = Address(s, None)

\* C11 as stated: a key that is passed, the empty token included, comes back
\* unchanged with its section; without a key the section token is cut at its
\* first dot, or is a parameter error / a bare section when it has no dot.
ExpandReference ==
    expanded.called =>
        IF expanded.key # None
        THEN expanded.out = Address(expanded.section, expanded.key)
        ELSE WithoutKey(expanded.section, expanded.key_required, expanded.out)

\* C11: _expand agrees with the reference once the empty KEY token counts as
\* an absent key: a non-empty key comes back unchanged with its section and
\* no dotted parsing; with no key or an empty one, a section without a dot is
\* a parameter error when key_required and (section, None) otherwise, and a
\* section with a dot is cut at its first dot only.
ExpandAgrees ==
    expanded.called =>
        IF expanded.key # None /\ expanded.key # <<>>
        THEN expanded.out = Address(expanded.section, expanded.key)
        ELSE WithoutKey(expanded.section, expanded.key_required, expanded.out)

\* a token with two dots was expanded without a key and cut at the first
ExpandAgreesWitness ==
    /\ expanded.called
    /\ expanded.key = None
    /\ \E i, j \in 1..Len(expanded.section) :
          i < j /\ expanded.section[i] = DOT /\ expanded.section[j] = DOT
    /\ expanded.out.kind = "ok"
    /\ HasDot(expanded.out.key)
    /\ ~HasDot(expanded.out.section)

\* C12: when _expand is called with key_required and returns, the section and
\* the key it returns are both non-empty strings.
ExpandedNonEmpty ==
    (expanded.called /\ expanded.key_required /\ expanded.out.kind = "ok") =>
        /\ expanded.out.section # <<>>
        /\ expanded.out.key # <<>>
        /\ expanded.out.key # None

----------------------------------------------------------------------------
(* Properties of config set and config get, checked under SpecSet *)

\* the (section, key) pairs a typed address can stand for: its two tokens,
\* or the two sides of a dot of its single token
Denoted(typed) ==
    IF Len(typed) = 2 THEN {<<typed[1], typed[2]>>}
    ELSE {<<SubSeq(typed[1], 1, i - 1),
            SubSeq(typed[1], i + 1, Len(typed[1]))>> :
             i \in {j \in 1..Len(typed[1]) : typed[1][j] = DOT}}

\* the last command was `command` and it completed
Completed(command) ==
    /\ lastCommand.called
    /\ lastCommand.command = command
    /\ lastCommand.out.kind = "ok"

\* the file the last command addressed
Target == IF lastCommand.user THEN USER_CONFIG_FILE ELSE LOCAL_CONFIG_FILE

\* a fresh read of the one file p returns v for (s, k)
Reads(p, s, k, v) ==
    LET parser == FreshParser(files, p)
    IN  /\ s \in DOMAIN parser
        /\ k \in DOMAIN parser[s]
        /\ parser[s][k] = v

\* the line `s.k = v`
Line(s, k, v) == s \o <<DOT>> \o k \o <<SPACE, "=", SPACE>> \o v

\* a pair that is typed as two tokens, or whose section holds no dot
FirstDotPair(typed, a) == Len(typed) = 2 \/ ~HasDot(a[1])

\* a value without a blank at either end
TrimValue(v) == v = <<>> \/ (v[1] # SPACE /\ v[Len(v)] # SPACE)

\* the pairs and values the round trip is stated for: all of them, or when
\* `trimmed` the pairs cut at the first dot and the values without blanks
\* at their ends
Stated(trimmed, typed, a, v) ==
    trimmed => (FirstDotPair(typed, a) /\ TrimValue(v))

\* the round trip: after a set of a pair to a value the file reads back that
\* value, and a get of a pair prints the value of its latest set
RoundTrip(trimmed) ==
    /\ Completed("set") =>
         \A a \in Denoted(lastCommand.typed) :
            Stated(trimmed, lastCommand.typed, a, lastCommand.value) =>
                Reads(Target, a[1], a[2], lastCommand.value)
    /\ (lastCommand.called /\ lastCommand.command = "get") =>
         \A a \in Denoted(lastCommand.typed) :
            LET e == <<Target, a[1], a[2]>>
            IN  (/\ e \in DOMAIN lastSet
                 /\ Stated(trimmed, lastCommand.typed, a, lastSet[e])) =>
                    lastCommand.out = Echoed({Line(a[1], a[2], lastSet[e])})

Declares(s) == files[Target].exists /\ s \in DOMAIN files[Target].data

\* C15: config get SECTION KEY fails with exit code 1 and prints no value on
\* a miss, with the message "No `SECTION` section defined." when the target
\* file has no such section and "No `SECTION.KEY` option defined." when it
\* has the section without the key.
MissesReported ==
    (/\ lastCommand.called
     /\ lastCommand.command = "get"
     /\ Len(lastCommand.typed) = 2) =>
        LET s == lastCommand.typed[1]
            k == lastCommand.typed[2]
            out == lastCommand.out
        IN  /\ ~Declares(s) =>
                /\ out.kind = "error"
                /\ out.text = <<"No ", BACKQUOTE>> \o s
                                 \o <<BACKQUOTE, " section defined.">>
                /\ out.printed = {}
                /\ exit_code(out) = 1
            /\ (Declares(s) /\ k \notin DOMAIN files[Target].data[s]) =>
                /\ out.kind = "error"
                /\ out.text = <<"No ", BACKQUOTE>> \o s \o <<DOT>> \o k
                                 \o <<BACKQUOTE, " option defined.">>
                /\ out.printed = {}
                /\ exit_code(out) = 1

\* a get of a key the section lacks, in a section that defines another key
MissesReportedWitness ==
    /\ lastCommand.called
    /\ lastCommand.command = "get"
    /\ Len(lastCommand.typed) = 2
    /\ Declares(lastCommand.typed[1])
    /\ lastCommand.typed[2] \notin DOMAIN files[Target].data[lastCommand.typed[1]]
    /\ files[Target].data[lastCommand.typed[1]] # EmptyParser
    /\ lastCommand.out.kind = "error"

----------------------------------------------------------------------------
(* Properties of the mutating commands, checked under SpecMutate *)

\* the configuration file that -u does not select
Other(user) == IF user THEN LOCAL_CONFIG_FILE ELSE USER_CONFIG_FILE

\* the (section, key, value) entries a fresh read of file f returns
Stored(f) ==
    IF ~f.exists THEN {}
    ELSE UNION {{<<s, k, strip(f.data[s][k])>> : k \in DOMAIN f.data[s]} :
                   s \in DOMAIN f.data}

\* the sections file f declares
Declared(f) == IF f.exists THEN DOMAIN f.data ELSE {}

\* the step is a run of one of the given commands
Runs(names) ==
    /\ ~lastCommand.called
    /\ lastCommand'.called
    /\ lastCommand'.command \in names

\* the (section, key) pairs the command of the step names
Named ==
    IF lastCommand'.command = "alias"
    THEN {<<ALIAS_SECTION, lastCommand'.typed[1]>>}
    ELSE Denoted(lastCommand'.typed)

\* C16: every mutation (config set, config rm, alias ALIAS COMMAND) acts on
\* one target file, the local file by default and the user file with -u:
\* the other file is left unchanged, the target file gains no section and
\* no entry but the one the command names (the parser is a fresh one of
\* that single file), and the merged Config of the process stays the one
\* loaded from the files as they were before the mutation.
MutationFrame ==
    [][Runs({"set", "rm", "alias"}) =>
         LET user == lastCommand'.user
             target == IF user THEN USER_CONFIG_FILE ELSE LOCAL_CONFIG_FILE
         IN  /\ files'[Other(user)] = files[Other(user)]
             /\ \A e \in Stored(files'[target]) \ Stored(files[target]) :
                   <<e[1], e[2]>> \in Named
             /\ \A s \in Declared(files'[target]) \ Declared(files[target]) :
                   \E a \in Named : a[1] = s
             /\ config' =
                   Loaded(ReadAll(EmptyParser,
                                  SelectSeq(CONFIG_FILES,
                                            LAMBDA p : files[p].exists), 1))
      ]_vars

\* a set with -u changed the user file next to a local file that defines
\* options, and the Config of the process does not hold the new value
MutationFrameWitness ==
    /\ Completed("set")
    /\ lastCommand.user
    /\ files[LOCAL_CONFIG_FILE].exists
    /\ Stored(files[LOCAL_CONFIG_FILE]) # {}
    /\ Stored(files[LOCAL_CONFIG_FILE]) \cap Stored(files[USER_CONFIG_FILE])
          = {}
    /\ config.loaded
    /\ \E a \in Denoted(lastCommand.typed) :
          /\ Reads(USER_CONFIG_FILE, a[1], a[2], lastCommand.value)
          /\ a[1] \notin DOMAIN config.parser

\* C17: config rm SECTION KEY of a key the target file does not hold is a
\* no-op: it completes without an error and the file reads back the same
\* entries, whether the section exists without the key or does not exist.
RmMissingKeyIsNoOp ==
    [][(/\ Runs({"rm"})
        /\ Len(lastCommand'.typed) = 2
        /\ \A e \in Stored(files[target_config(lastCommand'.user)]) :
              <<e[1], e[2]>> # <<lastCommand'.typed[1], lastCommand'.typed[2]>>)
        => /\ lastCommand'.out.kind = "ok"
           /\ Stored(files'[target_config(lastCommand'.user)])
                 = Stored(files[target_config(lastCommand'.user)])
      ]_vars

----------------------------------------------------------------------------
(* Properties of alias definition, checked under SpecAlias *)

\* `den alias A -- C1 ... Cn` completed and a later `den A extra...` was
\* resolved
AliasDefinedAndTyped ==
    /\ Completed("alias")
    /\ lastCommand.value # <<>>
    /\ result # NoResult
    /\ args[1] = lastCommand.typed[1]

\* no token of the command is empty or holds a blank
PlainTokens(command) ==
    \A i \in 1..Len(command) :
        /\ command[i] # <<>>
        /\ \A j \in 1..Len(command[i]) : command[i][j] # SPACE

\* the token is the name of a registered command, or begins exactly one
NamesCommand(token) ==
    \/ token \in commands
    \/ Cardinality({c \in commands : IsPrefix(token, c)}) = 1

\* the file the alias was not written to defines no alias of that name
OtherFileSilent ==
    LET f == files[Other(lastCommand.user)]
    IN  ~(/\ f.exists
          /\ ALIAS_SECTION \in DOMAIN f.data
          /\ lastCommand.typed[1] \in DOMAIN f.data[ALIAS_SECTION])

----------------------------------------------------------------------------
(* Properties of the lifecycle commands, checked under SpecEngine *)

\* part occurs in whole, piece by piece
Within(part, whole) ==
    \E i \in 0..(Len(whole) - Len(part)) :
        SubSeq(whole, i + 1, i + Len(part)) = part

\* the engine commands of the last lifecycle command that exited non-zero
FailedCalls ==
    {i \in 1..Len(engine.calls) : engine.calls[i].code # 0}

\* C19: whenever the engine command delegated by create, start, stop or
\* delete exits with a non-zero status, the den command ends as a command
\* failure whose message holds the failing command line and its exit code,
\* the exit code of den is not zero, and the engine command is not run
\* again.
EngineFailurePropagates ==
    (/\ engine.called
     /\ engine.command \in {"create", "start", "stop", "delete"}
     /\ FailedCalls # {}) =>
        \E i \in FailedCalls :
            /\ engine.out.kind = "error"
            /\ engine.out.type = "CommandFailure"
            /\ Within(engine.calls[i].cmd, engine.out.text)
            /\ Within(str(engine.calls[i].code), engine.out.text)
            /\ exit_code(engine.out) # 0
            /\ i = Len(engine.calls)
            /\ \A j \in 1..Len(engine.calls) :
                  engine.calls[j].cmd = engine.calls[i].cmd => j = i

\* context.debug is set
DebugSet == engine.debug \notin {None, <<>>, PyFalse}

\* the function uses_docker wraps raised a connection failure of the engine
ConnectionFailed ==
    engine.inner.kind = "error" /\ engine.inner.type = "ConnectionError"

\* C20: for a command wrapped by uses_docker (delete, list), a connection
\* failure of the engine ends the command with the DockerConnectionException
\* when context.debug is not set and with the original error when it is
\* set; every other exception and every return of the function is the
\* outcome of the command unchanged.
ConnectionFailureMasked ==
    (engine.called /\ engine.command \in {"delete", "list"}) =>
        IF ConnectionFailed /\ ~DebugSet
        THEN /\ engine.out.kind = "error"
             /\ engine.out.type = "DockerConnectionException"
             /\ engine.out.text =
                   <<"Failed to connect to the daemon",
                     ", ensure that docker is running and that you have ",
                     "permissions to talk to it.">>
             /\ exit_code(engine.out) = 1
        ELSE engine.out = engine.inner

\* delete --all met a connection failure with debug unset and ended with
\* the DockerConnectionException
ConnectionFailureMaskedWitness ==
    /\ engine.called
    /\ engine.command = "delete"
    /\ ConnectionFailed
    /\ ~DebugSet
    /\ engine.out.type = "DockerConnectionException"

----------------------------------------------------------------------------
(* Properties of den create, checked under SpecEngine *)

\* den create has run
Created == engine.called /\ engine.command = "create"

\* a value typed on the command line, else the [image] option, else the
\* built-in default
Preferred(typed, option, builtin) ==
    IF typed # None /\ typed # <<>> THEN typed
    ELSE get(config.parser, IMAGE_SECTION, option, builtin)

\* the engine command that creates a den with this name, image and command
Creates(cmd, name, image, command) ==
    LET head == <<"docker", SPACE, "create", SPACE, "--hostname", SPACE>>
                    \o name \o <<SPACE>>
        named == <<SPACE, "--name", SPACE>> \o name \o <<SPACE>>
        tail == <<SPACE>> \o image
                    \o (IF command = None THEN <<>> ELSE <<SPACE>> \o command)
    IN  /\ startswith(cmd, head)
        /\ Within(named, cmd)
        /\ Len(cmd) >= Len(tail)
        /\ SubSeq(cmd, Len(cmd) - Len(tail) + 1, Len(cmd)) = tail

\* C21: den create makes the den with the name, the command and the image
\* that are each the command line's value if given, else the configured
\* [image] name / command / default, else the built-in default (the project
\* directory's name, no command); with no image from either, it fails with
\* exit code 1
CreatePrecedence ==
    Created =>
        LET image == Preferred(engine.argv.image, <<"default">>, None)
            name == Preferred(engine.argv.name, <<"name">>, default_name)
            command == IF engine.argv.cmd # <<>> THEN Joined(engine.argv.cmd)
                       ELSE Preferred(None, <<"command">>, None)
        IN  IF image = None
            THEN engine.calls = <<>> /\ exit_code(engine.out) = 1
            ELSE /\ engine.calls # <<>>
                 /\ Creates(engine.calls[1].cmd, name, image, command)

\* C22: den create --start runs the engine's create command and then, with
\* nothing in between, the engine's start command for the same den name;
\* when the create command fails the start command is not run
CreateThenStart ==
    (Created /\ engine.argv.start
        /\ Preferred(engine.argv.image, <<"default">>, None) # None) =>
        LET name == Preferred(engine.argv.name, <<"name">>, default_name)
        IN  /\ engine.calls # <<>>
            /\ startswith(engine.calls[1].cmd,
                          <<"docker", SPACE, "create", SPACE, "--hostname",
                            SPACE>> \o name \o <<SPACE>>)
            /\ IF engine.calls[1].code = 0
               THEN /\ Len(engine.calls) = 2
                    /\ engine.calls[2].cmd = DOCKER_START_CMD(name)
               ELSE Len(engine.calls) = 1

----------------------------------------------------------------------------
(* The message of the ambiguous match, checked under Spec *)

\* the names one after the other with a comma and a blank between two
RECURSIVE CommaList(_)
CommaList(names) ==
    IF names = <<>> THEN <<>>
    ELSE names[1]
            \o (IF Len(names) = 1 THEN <<>>
                ELSE <<", ">> \o CommaList(Tail(names)))

\* where list_commands returns the registered name c
Position(c) ==
    CHOOSE i \in 1..Cardinality(commands) : list_commands(commands)[i] = c

\* resolution failed on the token t, which is no registered name and a
\* prefix of two or more
FailedAmbiguous(t) ==
    /\ Called
    /\ result.kind = "error"
    /\ result.name = t
    /\ t \notin commands
    /\ Cardinality(Matching(t)) >= 2

----------------------------------------------------------------------------
(* Properties of aliases that name aliases, checked under SpecChain *)

\* the one non-empty value the files give the alias t
AliasValue(t) == CHOOSE e \in AliasValues(t) : TRUE

\* t names an alias and neither a registered command nor the beginning of
\* one
OnlyAlias(t) ==
    /\ Matching(t) = {}
    /\ Cardinality(AliasValues(t)) = 1
    /\ AliasValue(t) # <<>>

\* the first token of the expansion of the alias t
HeadOf(t) == split(AliasValue(t), SPACE)[1]

\* den a ... was typed where a is an alias whose expansion begins with b,
\* and b is an alias as well
ChainTyped ==
    /\ Called
    /\ OnlyAlias(args[1])
    /\ OnlyAlias(HeadOf(args[1]))

\* C24 as stated: when the alias a expands to tokens whose head b is no
\* command and no beginning of one but a defined alias, b is resolved
\* through the alias lookup as well, and `den a` is resolved as b's
\* expansion is.
AliasChained ==
    ChainTyped =>
        LET b == HeadOf(args[1])
            expanded_a == split(AliasValue(args[1]), SPACE) \o Tail(args)
            expanded_b == split(AliasValue(b), SPACE) \o Tail(expanded_a)
        IN  result = GroupResolveCommand(commands, expanded_b)

\* C24: when the alias a expands to tokens whose head b is no command and
\* no beginning of one but a defined alias, the expansion is resolved
\* against the registered commands only: `den a` fails with the
\* command-not-found error about b, and b's own expansion is not used,
\* even when it names a registered command.
AliasNotChained ==
    ChainTyped =>
        /\ Failed("No such command", HeadOf(args[1]))
        /\ aliasUsed = Alias(split(AliasValue(args[1]), SPACE))

AliasNotChainedWitness ==
    /\ ChainTyped
    /\ HeadOf(args[1]) # args[1]
    /\ HeadOf(HeadOf(args[1])) \in commands
    /\ Tail(args) # <<>>
    /\ Failed("No such command", HeadOf(args[1]))

\* the token reached from t by following the heads of n expansions, each
\* of an alias that is no command and no beginning of one; None when the
\* chain ends before
RECURSIVE Follow(_, _)
Follow(t, n) ==
    IF n = 0 THEN t
    ELSE IF ~OnlyAlias(t) THEN None
    ELSE Follow(HeadOf(t), n - 1)

\* den a ... was typed where the alias a expands to itself or to a cycle
\* of aliases
CycleTyped ==
    /\ args # <<>>
    /\ \E n \in 1..MaxAliases : Follow(args[1], n) = args[1]

\* C25 as stated: for an alias that expands to itself or to a cycle of
\* aliases, none a command or the beginning of one, resolve_command never
\* returns a result or a command-not-found error.
CyclicAliasDiverges ==
    CycleTyped => result.kind \notin {"ok", "error"}

\* C25: for an alias that expands to itself or to a cycle of aliases, none
\* a command or the beginning of one, resolve_command expands the typed
\* alias once and returns by failing with the command-not-found error
\* about the head of that expansion.
CyclicAliasFails ==
    CycleTyped =>
        /\ aliasUsed = Alias(split(AliasValue(args[1]), SPACE))
        /\ Failed("No such command", HeadOf(args[1]))
        /\ result.names = <<>>

CyclicAliasFailsWitness ==
    /\ CycleTyped
    /\ Follow(args[1], 1) # args[1]
    /\ Follow(args[1], 2) = args[1]
    /\ commands # {}
    /\ Failed("No such command", HeadOf(args[1]))

\* find() was called for the typed token
Looked == Called /\ findCalled

\* what the merged configuration holds for the alias of the typed token,
\* None when it holds nothing
MergedAlias == get(config.parser, ALIAS_SECTION, args[1], None)

\* the expansion is the value cut at every single blank
SplitsAtBlanks(argv, value) ==
    /\ Joined(argv) = value
    /\ \A i \in 1..Len(argv) : \A j \in 1..Len(argv[i]) : argv[i][j] # SPACE

\* C26 as stated: find returns absent exactly when the merged config has no
\* value for the alias or the context has no config, and otherwise the
\* value cut at every single blank.
FindAbsentIffNoValue ==
    Looked =>
        IF ~hasConfig THEN aliasUsed = NoAlias
        ELSE IF MergedAlias = None THEN aliasUsed = NoAlias
        ELSE aliasUsed.found /\ SplitsAtBlanks(aliasUsed.argv, MergedAlias)

\* C26: find returns absent, without an error of its own, exactly when the
\* context has no config or the merged config has no value or an empty
\* value for the alias; otherwise it returns the value cut at every single
\* blank, so that the tokens joined by single blanks are the value and two
\* blanks in a row give an empty token.
FindAbsentIffEmpty ==
    Looked =>
        IF ~hasConfig THEN aliasUsed = NoAlias /\ result = firstError
        ELSE IF MergedAlias \in {None, <<>>}
        THEN aliasUsed = NoAlias /\ result = firstError
        ELSE aliasUsed.found /\ SplitsAtBlanks(aliasUsed.argv, MergedAlias)

FindAbsentIffEmptyWitness ==
    /\ Looked
    /\ hasConfig
    /\ Within(<<SPACE, SPACE>>, MergedAlias)
    /\ aliasUsed.found
    /\ Len(aliasUsed.argv) = 3
    /\ aliasUsed.argv[2] = <<>>

----------------------------------------------------------------------------
(* Properties of failed and completed mutations, checked under SpecMutate *)

\* C28: a mutation that fails, because the address cannot be expanded, the
\* prompt is declined or a parser operation raises inside the
\* _modify_config block, writes nothing: a file that exists keeps its
\* contents and a file that does not exist is not created.
FailedMutationWritesNothing ==
    [][(Runs({"set", "rm", "alias"}) /\ lastCommand'.out.kind = "error")
          => files' = files
      ]_vars

\* a config rm raised inside the block while its target file did not exist
FailedMutationWritesNothingWitness ==
    /\ lastCommand.called
    /\ lastCommand.command = "rm"
    /\ lastCommand.out.kind = "error"
    /\ lastCommand.out.type = "NoSectionError"
    /\ ~files[Target].exists
    /\ files[Other(lastCommand.user)].exists

\* C29: a completed config set of (s, k, v) changes that one entry of the
\* target file only: every other entry the file gave before is read back
\* with the same value, no other entry appears, and no section appears or
\* disappears but s, which is declared afterwards.
SetChangesOneEntry ==
    [][(Runs({"set"}) /\ lastCommand'.out.kind = "ok") =>
         LET target == target_config(lastCommand'.user)
         IN  \E a \in Denoted(lastCommand'.typed) :
                /\ \A e \in Stored(files[target]) :
                      <<e[1], e[2]>> # a => e \in Stored(files'[target])
                /\ \A e \in Stored(files'[target]) :
                      <<e[1], e[2]>> # a => e \in Stored(files[target])
                /\ Declared(files'[target])
                      = Declared(files[target]) \cup {a[1]}
      ]_vars

\* a set that added an option to a section holding another one
SetChangesOneEntryWitness ==
    /\ Completed("set")
    /\ \E a \in Denoted(lastCommand.typed) :
          /\ Reads(Target, a[1], a[2], strip(lastCommand.value))
          /\ \E e \in Stored(files[Target]) : e[1] = a[1] /\ e[2] # a[2]

\* `den alias A` has run, without a command and without -u
AliasInspected ==
    /\ lastCommand.called
    /\ lastCommand.command = "alias"
    /\ lastCommand.value = <<>>
    /\ ~lastCommand.user

\* the line that reports the alias as aliased to the tokens of argv, the
\* two commands in colour
Reported(alias, argv) ==
    <<"ESC[", "36", "m", "den ">> \o alias
        \o <<"ESC[0m", " is aliased to ", "ESC[", "36", "m", "den ">>
        \o Joined(argv) \o <<"ESC[0m">>

\* C30: alias inspection agrees with alias dispatch: whatever the local and
\* the user file hold, if find(context, a) yields an expansion then
\* `den alias a` reports a as aliased to it and does not fail, and if
\* `den alias a` reports an expansion then find(context, a) yields that
\* expansion cut at its blanks.
InspectionAgreesWithDispatch ==
    AliasInspected =>
        LET a == lastCommand.typed[1]
            dispatched == find(hasConfig, config.parser, a)
        IN  /\ dispatched.found =>
                  lastCommand.out = Echoed({Reported(a, dispatched.argv)})
            /\ lastCommand.out.kind = "ok" =>
                  /\ dispatched.found
                  /\ lastCommand.out.printed
                        = {Reported(a, dispatched.argv)}

----------------------------------------------------------------------------
(* Properties of the pending line of CLILogger, checked under SpecLogger *)

\* C27: a message logged while a report_success step is open is preceded
\* by a newline that closes the line of the step text, and clears the
\* pending flag, so that a failure of the step afterwards does not print
\* `error`; when nothing is logged during the step, `done` follows the step
\* text on success and `error` on an exception, which is raised again.
PendingLineClosed ==
    LET out == logger.out
    IN  \A i \in 2..Len(out) :
           /\ out[i].kind = "record" => out[i - 1].kind # "step"
           /\ out[i].kind = "error" => out[i - 1].kind = "step"
           /\ (out[i - 1].kind = "step" /\ out[i].kind \in {"done", "error"})
                 => /\ logger.step = "closed"
                    /\ out[i].kind = IF logger.raised THEN "error" ELSE "done"

====
